---- MODULE Spec2Model ----
(***************************************************************************)
(* Model of the snapshot tester (esse/Requester).                          *)
(*                                                                         *)
(* Spec       : the recording proxy (internal/recorder): the capture-and-  *)
(*              forward handler Recorder.ServeHTTP, the outgoing capture   *)
(*              proxy OutgoingProxy (buffer, mutex, Drain, ServeHTTP) and  *)
(*              the service under test as their environment.               *)
(* SpecReplay : the replay driver (internal/replayer): ReplayOne and       *)
(*              ReplayAll.                                                 *)
(* SpecMiddleware : the middleware stack Recorder.Start puts in front of   *)
(*              the handler: withAuth and withRateLimit.                   *)
(* SpecMock   : the mock server (internal/mock): NewServer, handleRequest. *)
(***************************************************************************)
EXTENDS Integers, Sequences, FiniteSets, TLC

\* ------------------------------------------------------------------ bounds
\* incoming calls a client sends to the recording proxy
NumCalls == 2
\* outgoing calls the service sends through the outgoing proxy
NumOut == 2
\* snapshots handed to ReplayAll
NumSnaps == 2
\* OutgoingProxy.ServeHTTP handlers that reach the append to the buffer
NumAppenders == 2
\* threads that call OutgoingProxy.Drain
NumDrainers == 2
\* calls of OutgoingProxy.Drain in one run
MaxDrains == 3
\* requests that arrive at the middleware stack
NumReqs == 2
\* tokens the rate limiter's bucket gains over time in one run
MaxTicks == 2
\* largest recording.rate_limit.max_concurrent
MaxConcurrent == 2
\* recorded outgoing requests a mock server is loaded with
MaxExp == 2
\* inbound calls to a mock server
NumMockCalls == 1
\* goroutines that call Store.Save at the same time
NumSavers == 2
\* calls of Store.Save in one run
MaxSaves == 2
\* runs of the update command in one run
MaxUpdates == 1
\* most rows a table holds in a DB state
MaxRows == 2
MaxFields == 2
MaxRestores == 2
MaxProxied == 2
MaxServices == 3
\* longest body over the alphabet of bytes
MaxBodyLen == 2
\* the width of the sequence number in "%03d_"
SeqWidth == 3

Calls == 1..NumCalls
Outs == 1..NumOut
Snaps == 1..NumSnaps
Appenders == 1..NumAppenders
Drainers == 1..NumDrainers
Reqs == 1..NumReqs

\* ------------------------------------------------------------- state
VARIABLES
    \* ---- recording proxy
    pc,        \* position of the handler of each incoming call
    calls,     \* OutgoingProxy.calls, the capture buffer (outgoing call ids)
    drained,   \* return value of the stale and of the observed Drain per call
    steps,     \* steps the handler of each incoming call has performed, in order
    fail,      \* which step of the handler failed for a call ("none" if none)
    client,    \* what the client of each incoming call has received
    svc,       \* what the service answered to each forwarded call
    rr,        \* responseRecorder of each call (statusCode, body)
    saved,     \* snapshots the store holds for each incoming call
    overlap,   \* calls that were in flight at the same time as each call
    oc,        \* outgoing calls: state, cause and the context of their events
    \* ---- the capture buffer and its mutex, statement by statement
    dmu,       \* OutgoingProxy.mu: 0 when free, else the thread that holds it
    dbuf,      \* OutgoingProxy.calls
    ap,        \* appenders: position, and how many Drains had locked at the append
    dr,        \* drainers: position, Drain's local `calls`, lock order number,
               \* and whether the Drain began with no append since the last one
    dlog,      \* the Drains that returned, in order, with what they returned
    sinceDrain,\* "none": no Drain returned yet; "clean": no append since the
               \* last Drain returned; "dirty": an append since then
    \* ---- replay driver
    rpc,       \* position of each ReplayOne
    result,    \* ReplayAll's results slice
    testdb,    \* the shared test database: the snapshot whose db_state_before
               \* it was restored to, and what happened to it since
    rlocal,    \* ReplayOne's local actualResp
    effects,   \* what each ReplayOne did: restore, mock server, service,
               \* request fired, DB snapshot taken
    rcfg,      \* replay configuration and the snapshots given to ReplayAll
    returned,  \* whether ReplayAll has returned the results
    \* ---- middleware stack
    mcfg,      \* recording.proxy_auth_token and recording.rate_limit
    mreq,      \* each request: position in the stack, Authorization header,
               \* what the client got and what the request used on its way
    tokens,    \* tokens in the rate limiter's bucket
    ticks,     \* tokens the bucket has gained so far
    sem,       \* number of elements in the semaphore channel
    \* ---- mock server
    mock,      \* whether the server is loaded, and the outgoing requests it
               \* was loaded from
    mcalls,    \* Server.calls, the observed calls
    manswers,  \* what each inbound call was answered, in order
    \* ---- snapshot store
    disk,      \* the endpoint directory: file name -> the document the file holds
    opened,    \* whether the run has found its directory
    sv,        \* Store.Save calls in progress: position, seq and the snapshot
    issued,    \* ids GenerateID has returned
    saveLog,   \* the saves that returned a path, in order
    op,        \* the last operation that returned: its kind and path
    updates,   \* runs of the update command so far
    \* ---- body codec
    codec,     \* the body on its way: raw bytes, content type, ParseBody's value and DecodeBody's bytes
    \* ---- differ
    differ,    \* the two DB states and the diff computed from them
    \* ---- field redaction
    redaction, \* the snapshot built, the fields, and the snapshot after one and after two redactions
    \* ---- database restore
    restore,   \* RestoreAll: where it is, the session flag for foreign key checks, the tables, and what it has done
    \* ---- database scans of a recorded call
    dbscan,    \* the database, the configured tables, and the states scanned before and after the call
    \* ---- outgoing proxy, statement by statement
    oproxy,    \* the capture buffer, what was drained from it, and each outgoing call handled so far
    \* ---- managed service
    msvc       \* the handle, the process, where Stop is, and the seconds it has waited

recVars == <<pc, calls, drained, steps, fail, client, svc, rr, saved,
             overlap, oc>>
drnVars == <<dmu, dbuf, ap, dr, dlog, sinceDrain>>
repVars == <<rpc, result, testdb, rlocal, effects, rcfg, returned>>
midVars == <<mcfg, mreq, tokens, ticks, sem>>
mockVars == <<mock, mcalls, manswers>>
storeVars == <<disk, opened, sv, issued, saveLog, op, updates>>
bodyVars == <<codec>>
diffVars == <<differ>>
redactVars == <<redaction>>
restoreVars == <<restore>>
scanVars == <<dbscan>>
proxyVars == <<oproxy>>
stopVars == <<msvc>>
vars == <<recVars, drnVars, repVars, midVars, mockVars, storeVars, bodyVars, diffVars, redactVars, restoreVars, scanVars, proxyVars, stopVars>>

\* ------------------------------------------------------------ helpers
Range(s) == {s[k] : k \in 1..Len(s)}

IsPrefix(s, t) == Len(s) =< Len(t) /\ \A k \in 1..Len(s) : s[k] = t[k]

NoResp == [status |-> 0, body |-> ""]

\* ================================================================
\* Recording proxy
\* ================================================================

\* answers of the service under test to a forwarded call
OkResponse == [status |-> 200, body |-> "a"]

Responses == {OkResponse, [status |-> 404, body |-> "b"]}

\* the order of the steps of Recorder.ServeHTTP
StepOrder == <<"db_before", "drain_stale", "forward", "drain_observed",
               "db_after", "save">>

InFlight == {i \in Calls : pc[i] \notin {"idle", "done"}}

\* control flow of Recorder.ServeHTTP: the position after the step at p,
\* given whether the step succeeded
NextPcNoStaleDrain(p, ok) ==
    CASE p = "before" -> IF ok THEN "fwd" ELSE "done"
      [] p = "stale"  -> "fwd"
      [] p = "fwd"    -> "atsvc"
      [] p = "atsvc"  -> "obs"
      [] p = "obs"    -> "after"
      [] p = "after"  -> IF ok THEN "save" ELSE "done"
      [] OTHER        -> "done"

NextPcNoReturnBefore(p, ok) ==
    CASE p = "before" -> "stale"
      [] p = "stale"  -> "fwd"
      [] p = "fwd"    -> "atsvc"
      [] p = "atsvc"  -> "obs"
      [] p = "obs"    -> "after"
      [] p = "after"  -> IF ok THEN "save" ELSE "done"
      [] OTHER        -> "done"

NextPcNoObservedDrain(p, ok) ==
    CASE p = "before" -> IF ok THEN "stale" ELSE "done"
      [] p = "stale"  -> "fwd"
      [] p = "fwd"    -> "atsvc"
      [] p = "atsvc"  -> "after"
      [] p = "obs"    -> "after"
      [] p = "after"  -> IF ok THEN "save" ELSE "done"
      [] OTHER        -> "done"

NextPc(p, ok) ==
    CASE p = "before" -> IF ok THEN "stale" ELSE "done"
      [] p = "stale"  -> "fwd"
      [] p = "fwd"    -> "atsvc"
      [] p = "atsvc"  -> "obs"
      [] p = "obs"    -> "after"
      [] p = "after"  -> IF ok THEN "save" ELSE "done"
      [] OTHER        -> "done"

\* Drain: p.calls = nil
AfterDrainKeeps(buf) == buf

AfterDrain(buf) == <<>>

\* Drain: calls := p.calls ... return calls
DrainReturn(buf) == buf

\* OutgoingProxy.ServeHTTP: p.calls = append(p.calls, outgoing)
AppendCallReplaces(buf, o) == <<o>>

AppendCall(buf, o) == Append(buf, o)

\* responseRecorder.WriteHeader / Write pass the status and the body on to
\* the client's ResponseWriter
WriteThroughNoBody(status, body) == [status |-> status, body |-> ""]

WriteThrough(status, body) == [status |-> status, body |-> body]

\* responseRecorder.WriteHeader / Write keep the status and the body
Capture(status, body) == [status |-> status, body |-> body]

\* Recorder.buildSnapshot
BuildSnapshot(i, resp, outgoing) ==
    [call |-> i, status |-> resp.status, body |-> resp.body,
     outgoing_requests |-> outgoing]

NoOut == [st |-> "none", cause |-> 0, kind |-> "http", code |-> 0,
          startArr |-> {}, startAns |-> {}, appBefore |-> {},
          inTime |-> FALSE]

\* incoming calls whose observed Drain is still to come: the only calls whose
\* snapshot an outgoing call that is not yet drained can still end up in
Live == {j \in Calls : pc[j] \in {"stale", "fwd", "atsvc", "obs"}}

\* the context kept with outgoing call o once the Drain of call i has run:
\* a drained call keeps what it knows about the call that drained it, and
\* after its observed Drain call i can take no further outgoing call
Forget(o, i, kind, buf) ==
    LET keep == IF o \in Range(buf)
                THEN (IF kind = "obs" THEN {i} ELSE {})
                ELSE (IF kind = "obs" THEN Calls \ {i} ELSE Calls) IN
    [oc[o] EXCEPT !.startArr = @ \cap keep, !.startAns = @ \cap keep,
                  !.appBefore = @ \cap keep]

RecInit ==
    /\ pc = [i \in Calls |-> "idle"]
    /\ calls = <<>>
    /\ drained = [i \in Calls |-> [stale |-> <<>>, obs |-> <<>>]]
    /\ steps = [i \in Calls |-> <<>>]
    /\ fail = [i \in Calls |-> "none"]
    /\ client = [i \in Calls |-> NoResp]
    /\ svc = [i \in Calls |-> NoResp]
    /\ rr = [i \in Calls |-> [status |-> 200, body |-> ""]]
    /\ saved = [i \in Calls |-> <<>>]
    /\ overlap = [i \in Calls |-> {}]
    /\ oc = [o \in Outs |-> NoOut]

\* the http.Server starts Recorder.ServeHTTP for an incoming call;
\* step 1 fails: io.ReadAll(req.Body) returns an error, 500
ReadBodyFail(i) ==
    /\ pc[i] = "idle"
    /\ IF i = 1 THEN TRUE ELSE pc[i - 1] # "idle"
    /\ pc' = [pc EXCEPT ![i] = "done"]
    /\ fail' = [fail EXCEPT ![i] = "body"]
    /\ client' = [client EXCEPT ![i] = [status |-> 500, body |-> ""]]
    /\ UNCHANGED <<calls, drained, steps, svc, rr, saved, overlap, oc>>

\* the http.Server starts Recorder.ServeHTTP for an incoming call; steps 1
\* and 2: the body is read, dbBefore, err := r.snapshotter.SnapshotAll()
SnapshotBefore(i, ok) ==
    /\ pc[i] = "idle"
    /\ IF i = 1 THEN TRUE ELSE pc[i - 1] # "idle"
    /\ pc' = [pc EXCEPT ![i] = NextPc("before", ok)]
    /\ steps' = [steps EXCEPT ![i] = Append(@, "db_before")]
    /\ overlap' = [j \in Calls |->
                     IF j = i THEN InFlight
                     ELSE IF j \in InFlight THEN overlap[j] \cup {i}
                     ELSE overlap[j]]
    /\ IF ok
       THEN UNCHANGED <<fail, client>>
       ELSE /\ fail' = [fail EXCEPT ![i] = "db_before"]
            /\ client' = [client EXCEPT ![i] = [status |-> 500, body |-> ""]]
    /\ UNCHANGED <<calls, drained, svc, rr, saved, oc>>

\* steps 3 and 5: r.outgoingProxy.Drain(): under the mutex, return the
\* buffer and reset it
Drain(i) ==
    /\ pc[i] \in {"stale", "obs"}
    /\ drained' = [drained EXCEPT
                     ![i] = IF pc[i] = "stale"
                            THEN [@ EXCEPT !.stale = DrainReturn(calls)]
                            ELSE [@ EXCEPT !.obs = DrainReturn(calls)]]
    /\ calls' = AfterDrain(calls)
    /\ steps' = [steps EXCEPT
                   ![i] = Append(@, IF pc[i] = "stale" THEN "drain_stale"
                                    ELSE "drain_observed")]
    /\ oc' = [o \in Outs |->
                Forget(o, i, IF pc[i] = "stale" THEN "stale" ELSE "obs", calls)]
    /\ pc' = [pc EXCEPT ![i] = NextPc(pc[i], TRUE)]
    /\ UNCHANGED <<fail, client, svc, rr, saved, overlap>>

\* step 4: r.proxy.ServeHTTP(recorder, req) hands the call to the service
Forward(i) ==
    /\ pc[i] = "fwd"
    /\ steps' = [steps EXCEPT ![i] = Append(@, "forward")]
    /\ pc' = [pc EXCEPT ![i] = NextPc("fwd", TRUE)]
    /\ UNCHANGED <<calls, drained, fail, client, svc, rr, saved, overlap, oc>>

\* the service answers the forwarded call; the reverse proxy writes the
\* answer to the responseRecorder, which keeps it and passes it on
ServiceAnswer(i, r) ==
    /\ pc[i] = "atsvc"
    /\ svc' = [svc EXCEPT ![i] = r]
    /\ rr' = [rr EXCEPT ![i] = Capture(r.status, r.body)]
    /\ client' = [client EXCEPT ![i] = WriteThrough(r.status, r.body)]
    /\ pc' = [pc EXCEPT ![i] = NextPc("atsvc", TRUE)]
    /\ UNCHANGED <<calls, drained, steps, fail, saved, overlap, oc>>

\* the service cannot be reached: the reverse proxy answers 502 itself
ForwardFail(i) ==
    /\ pc[i] = "atsvc"
    /\ rr' = [rr EXCEPT ![i] = Capture(502, "")]
    /\ client' = [client EXCEPT ![i] = WriteThrough(502, "")]
    /\ pc' = [pc EXCEPT ![i] = NextPc("atsvc", TRUE)]
    /\ UNCHANGED <<calls, drained, steps, fail, svc, saved, overlap, oc>>

\* steps 6 to 8: dbAfter, err := r.snapshotter.SnapshotAll(); buildSnapshot;
\* r.store.Save(snap)
SnapshotAfterAndSave(i, dbOk, saveOk) ==
    /\ pc[i] = "after"
    /\ LET saves == NextPc("after", dbOk) = "save" IN
         /\ steps' = [steps EXCEPT
                        ![i] = IF saves THEN @ \o <<"db_after", "save">>
                               ELSE Append(@, "db_after")]
         /\ fail' = [fail EXCEPT
                       ![i] = IF ~dbOk THEN "db_after"
                              ELSE IF saves /\ ~saveOk THEN "save" ELSE @]
         /\ saved' = [saved EXCEPT
                        ![i] = IF saves /\ saveOk
                               THEN Append(@, BuildSnapshot(i, rr[i], drained[i].obs))
                               ELSE @]
    /\ pc' = [pc EXCEPT ![i] = "done"]
    /\ UNCHANGED <<calls, drained, client, svc, rr, overlap, oc>>

\* ---- the service under test and the outgoing capture proxy

\* the service sends outgoing call o through the outgoing proxy, either
\* while it handles the forwarded incoming call c or on its own (c = 0)
ServiceSend(o, c) ==
    /\ oc[o].st = "none"
    /\ IF o = 1 THEN TRUE ELSE oc[o - 1].st # "none"
    /\ IF c = 0 THEN TRUE ELSE pc[c] = "atsvc"
    /\ oc' = [oc EXCEPT ![o] =
                [@ EXCEPT !.st = "sent", !.cause = c,
                          !.startArr = Live,
                          !.startAns = {j \in Live : client[j].status # 0}]]
    /\ UNCHANGED <<pc, calls, drained, steps, fail, client, svc, rr, saved,
                   overlap>>

\* OutgoingProxy.ServeHTTP, the method is CONNECT: 405, nothing forwarded
\* or captured
ProxyConnect(o) ==
    /\ oc[o].st = "sent"
    /\ oc' = [oc EXCEPT ![o] = [@ EXCEPT !.st = "failed", !.kind = "connect",
                                         !.code = 405]]
    /\ UNCHANGED <<pc, calls, drained, steps, fail, client, svc, rr, saved,
                   overlap>>

\* OutgoingProxy.ServeHTTP, an error path (request body, NewRequest,
\* client.Do or response body fails): 502 and return, nothing captured
ProxyFail(o) ==
    /\ oc[o].st = "sent"
    /\ oc' = [oc EXCEPT ![o] = [@ EXCEPT !.st = "failed", !.code = 502]]
    /\ UNCHANGED <<pc, calls, drained, steps, fail, client, svc, rr, saved,
                   overlap>>

\* OutgoingProxy.ServeHTTP, success: the call was forwarded, the upstream
\* response read, and the call is appended to the buffer under the mutex
ProxyAppend(o) ==
    /\ oc[o].st = "sent"
    /\ calls' = AppendCall(calls, o)
    /\ oc' = [oc EXCEPT ![o] =
                [@ EXCEPT !.st = "appended", !.appBefore = Live]]
    /\ UNCHANGED <<pc, drained, steps, fail, client, svc, rr, saved, overlap>>

\* OutgoingProxy.ServeHTTP, success: the upstream response is written back
\* to the service
ProxyRespond(o) ==
    /\ oc[o].st = "appended"
    /\ oc' = [oc EXCEPT ![o] =
                [@ EXCEPT !.st = "responded", !.code = 200,
                          !.inTime = IF oc[o].cause = 0 THEN FALSE
                                     ELSE pc[oc[o].cause] = "atsvc"]]
    /\ UNCHANGED <<pc, calls, drained, steps, fail, client, svc, rr, saved,
                   overlap>>

\* the handler's steps when the database, the store and the service work
HandlerNext ==
    \/ \E i \in Calls : SnapshotBefore(i, TRUE)
    \/ \E i \in Calls : Drain(i)
    \/ \E i \in Calls : Forward(i)
    \/ \E i \in Calls : ServiceAnswer(i, OkResponse)
    \/ \E i \in Calls : SnapshotAfterAndSave(i, TRUE, TRUE)

\* the service's outgoing calls and the outgoing proxy's handling of them
OutgoingNext ==
    \/ \E o \in Outs, c \in {0} \cup Calls : ServiceSend(o, c)
    \/ \E o \in Outs : ProxyConnect(o)
    \/ \E o \in Outs : ProxyFail(o)
    \/ \E o \in Outs : ProxyAppend(o)
    \/ \E o \in Outs : ProxyRespond(o)

\* the handler's steps when the request body, the database, the store or
\* the service may fail and the service answers with any response
FaultyHandlerNext ==
    \/ \E i \in Calls : ReadBodyFail(i)
    \/ \E i \in Calls, ok \in BOOLEAN : SnapshotBefore(i, ok)
    \/ \E i \in Calls : Drain(i)
    \/ \E i \in Calls : Forward(i)
    \/ \E i \in Calls, r \in Responses : ServiceAnswer(i, r)
    \/ \E i \in Calls : ForwardFail(i)
    \/ \E i \in Calls, dbOk \in BOOLEAN, saveOk \in BOOLEAN :
           SnapshotAfterAndSave(i, dbOk, saveOk)

\* ================================================================
\* The capture buffer under concurrent appends and drains
\* ================================================================

\* p.mu.Lock() succeeds only when nobody holds the mutex
MuFreeBroken(m) == TRUE

MuFree(m) == m = 0

\* number of Drain calls that have taken the lock so far
DrainLocks == Len(dlog) + Cardinality({d \in Drainers : dr[d].pc # "idle"})

IdleDrainer == [pc |-> "idle", local |-> <<>>, lockNo |-> 0, clean |-> FALSE]

DrainInit ==
    /\ dmu = 0
    /\ dbuf = <<>>
    /\ ap = [a \in Appenders |-> [pc |-> "start", seq |-> 0]]
    /\ dr = [d \in Drainers |-> IdleDrainer]
    /\ dlog = <<>>
    /\ sinceDrain = "none"

\* OutgoingProxy.ServeHTTP: p.mu.Lock()
AppendLock(a) ==
    /\ ap[a].pc = "start"
    /\ MuFree(dmu)
    /\ dmu' = a
    /\ ap' = [ap EXCEPT ![a].pc = "locked"]
    /\ UNCHANGED <<dbuf, dr, dlog, sinceDrain>>

\* OutgoingProxy.ServeHTTP: p.calls = append(p.calls, outgoing)
AppendStore(a) ==
    /\ ap[a].pc = "locked"
    /\ dbuf' = AppendCall(dbuf, a)
    /\ ap' = [ap EXCEPT ![a] = [pc |-> "unlock", seq |-> DrainLocks]]
    /\ sinceDrain' = IF sinceDrain = "clean" THEN "dirty" ELSE sinceDrain
    /\ UNCHANGED <<dmu, dr, dlog>>

\* OutgoingProxy.ServeHTTP: p.mu.Unlock()
AppendUnlock(a) ==
    /\ ap[a].pc = "unlock"
    /\ dmu' = 0
    /\ ap' = [ap EXCEPT ![a].pc = "done"]
    /\ UNCHANGED <<dbuf, dr, dlog, sinceDrain>>

\* Drain: p.mu.Lock()
DrainLock(d) ==
    /\ dr[d].pc = "idle"
    /\ DrainLocks < MaxDrains
    /\ MuFree(dmu)
    /\ dmu' = NumAppenders + d
    /\ dr' = [dr EXCEPT ![d] = [pc |-> "read", local |-> <<>>,
                                lockNo |-> DrainLocks + 1,
                                clean |-> (sinceDrain = "clean")]]
    /\ UNCHANGED <<dbuf, ap, dlog, sinceDrain>>

\* Drain: calls := p.calls
DrainRead(d) ==
    /\ dr[d].pc = "read"
    /\ dr' = [dr EXCEPT ![d].pc = "clear", ![d].local = DrainReturn(dbuf)]
    /\ UNCHANGED <<dmu, dbuf, ap, dlog, sinceDrain>>

\* Drain: p.calls = nil
DrainClear(d) ==
    /\ dr[d].pc = "clear"
    /\ dbuf' = AfterDrain(dbuf)
    /\ dr' = [dr EXCEPT ![d].pc = "ret"]
    /\ UNCHANGED <<dmu, ap, dlog, sinceDrain>>

\* Drain: return calls, and the deferred p.mu.Unlock() runs
DrainRet(d) ==
    /\ dr[d].pc = "ret"
    /\ dmu' = 0
    /\ dlog' = Append(dlog, [seq |-> dr[d].lockNo, ret |-> dr[d].local,
                             clean |-> dr[d].clean])
    /\ sinceDrain' = "clean"
    /\ dr' = [dr EXCEPT ![d] = IdleDrainer]
    /\ UNCHANGED <<dbuf, ap>>

DrainNext ==
    \/ \E a \in Appenders : AppendLock(a)
    \/ \E a \in Appenders : AppendStore(a)
    \/ \E a \in Appenders : AppendUnlock(a)
    \/ \E d \in Drainers : DrainLock(d)
    \/ \E d \in Drainers : DrainRead(d)
    \/ \E d \in Drainers : DrainClear(d)
    \/ \E d \in Drainers : DrainRet(d)

\* ================================================================
\* Replay driver
\* ================================================================

\* the zero TestResult of results := make([]TestResult, len(snapshots))
NoResult == [id |-> 0, passed |-> FALSE, diffs |-> <<>>, error |-> ""]

NoEffects == [restore |-> "none", mock |-> "none", svc |-> "none",
              fired |-> FALSE, snapped |-> FALSE, order |-> <<>>,
              env |-> [mock_env_var |-> <<>>], doneAfter |-> {},
              sawBase |-> 0, stops |-> <<>>]

\* mockServer.Start() returns the address the mock server of replay n
\* listens on; mockURL := fmt.Sprintf("http://%s", addr)
MockURL(n) == <<"http://", n>>

\* startService: cmd.Env = append(os.Environ(), extraEnv...) with
\* extraEnv = [envVar=mockURL]
ServiceEnv(url) == [mock_env_var |-> url]

\* snap.Response and snap.DBStateAfter of snapshot n: the recorded service
\* answered OkResponse and left the restored state as it was
ExpectedResponse(n) == OkResponse

ExpectedDB(n) == [base |-> n, mod |-> "clean"]

\* asserter.AssertResponse: one diff for the status, the diffs of the body
AssertResponse(expected, actual) ==
    (IF expected.status # actual.status THEN <<"response.status">> ELSE <<>>)
    \o (IF expected.body # actual.body THEN <<"response.body">> ELSE <<>>)

\* asserter.AssertDBState
AssertDBState(expected, actual) ==
    IF expected # actual THEN <<"db">> ELSE <<>>

\* ReplayOne: result.Passed = len(result.Diffs) == 0
PassedOfAlways(diffs) == TRUE

PassedOf(diffs) == Len(diffs) = 0

\* control flow of ReplayOne for snapshot n: the position after the step at
\* p, given whether the step succeeded
RNextPcNoReturnRestore(p, ok, n) ==
    CASE p = "restore" -> IF rcfg.hasOut[n] THEN "mock" ELSE "fire"
      [] p = "mock"    -> IF ok THEN (IF rcfg.command THEN "svc" ELSE "fire")
                          ELSE "done"
      [] p = "svc"     -> IF ok THEN "fire" ELSE "done"
      [] p = "fire"    -> IF ok THEN "snap" ELSE "done"
      [] OTHER         -> "done"

RNextPcAlwaysMock(p, ok, n) ==
    CASE p = "restore" -> IF ok THEN "mock" ELSE "done"
      [] p = "mock"    -> IF ok THEN (IF rcfg.command THEN "svc" ELSE "fire")
                          ELSE "done"
      [] p = "svc"     -> IF ok THEN "fire" ELSE "done"
      [] p = "fire"    -> IF ok THEN "snap" ELSE "done"
      [] OTHER         -> "done"

RNextPc(p, ok, n) ==
    CASE p = "restore" -> IF ok THEN (IF rcfg.hasOut[n] THEN "mock" ELSE "fire")
                          ELSE "done"
      [] p = "mock"    -> IF ok THEN (IF rcfg.command THEN "svc" ELSE "fire")
                          ELSE "done"
      [] p = "svc"     -> IF ok THEN "fire" ELSE "done"
      [] p = "fire"    -> IF ok THEN "snap" ELSE "done"
      [] OTHER         -> "done"

\* the deferred svc.Stop() and mockServer.Stop() run when ReplayOne returns,
\* the one deferred last first;
\* doneAfter: the replays that had returned before this one
DeferredFIFO(e) ==
    [e EXCEPT !.svc = IF @ = "up" THEN "stopped" ELSE @,
              !.mock = IF @ = "up" THEN "stopped" ELSE @,
              !.stops = (IF e.mock = "up" THEN <<"mock">> ELSE <<>>)
                        \o (IF e.svc = "up" THEN <<"svc">> ELSE <<>>),
              !.doneAfter = {m \in Snaps : rpc[m] = "done"}]

Deferred(e) ==
    [e EXCEPT !.svc = IF @ = "up" THEN "stopped" ELSE @,
              !.mock = IF @ = "up" THEN "stopped" ELSE @,
              !.stops = (IF e.svc = "up" THEN <<"svc">> ELSE <<>>)
                        \o (IF e.mock = "up" THEN <<"mock">> ELSE <<>>),
              !.doneAfter = {m \in Snaps : rpc[m] = "done"}]

\* ReplayAll: results[idx] = r.ReplayOne(s, p)
StoreResultInCompletionOrder(results, idx, res) ==
    LET free == {k \in DOMAIN results : results[k] = NoResult}
        first == CHOOSE k \in free : \A j \in free : k =< j IN
    [results EXCEPT ![first] = res]

StoreResult(results, idx, res) == [results EXCEPT ![idx] = res]

\* ReplayOne: result.Error = ...; return result
ErrorResult(n, msg) ==
    [id |-> n, passed |-> FALSE, diffs |-> <<>>, error |-> msg]

\* ReplayAll: r.config.Replay.Parallel && len(snapshots) > 1
RunsConcurrentlyAlways(cfg) == TRUE

RunsConcurrently(cfg) == cfg.parallel /\ NumSnaps > 1

RepInit ==
    /\ rpc = [n \in Snaps |-> "idle"]
    /\ result = [n \in Snaps |-> NoResult]
    /\ testdb = [base |-> 0, mod |-> "clean"]
    /\ rlocal = [n \in Snaps |-> NoResp]
    /\ effects = [n \in Snaps |-> NoEffects]
    /\ rcfg = [parallel |-> FALSE, command |-> FALSE,
               hasOut |-> [n \in Snaps |-> FALSE]]
    /\ returned = FALSE

\* ReplayAll(snapshots, paths) is called: config.Replay.Parallel, whether
\* config.Service.Command is set, and for each snapshot whether it has
\* outgoing requests; results := make([]TestResult, len(snapshots))
ReplayAllCall(c) ==
    /\ \A n \in Snaps : rpc[n] = "idle"
    /\ rcfg' = c
    /\ rpc' = [n \in Snaps |-> "wait"]
    /\ UNCHANGED <<result, testdb, rlocal, effects, returned>>

\* ReplayOne moves on from the step at p: to the next step, or it returns
\* res, the deferred stops run and ReplayAll stores res in results[idx]
Advance(n, p, ok, e, res) ==
    LET q == RNextPc(p, ok, n) IN
    /\ rpc' = [rpc EXCEPT ![n] = q]
    /\ effects' = [effects EXCEPT ![n] = IF q = "done" THEN Deferred(e) ELSE e]
    /\ result' = IF q = "done" THEN StoreResult(result, n, res) ELSE result

\* ReplayAll calls ReplayOne for snapshot n (in a goroutine of its own when
\* parallel, else after the ReplayOne before it returned); step 1:
\* r.snapshotter.RestoreAll(snap.DBStateBefore), which can fail after it
\* changed part of the database
Restore(n, ok, partial) ==
    /\ rpc[n] = "wait"
    /\ IF RunsConcurrently(rcfg) THEN TRUE
       ELSE IF n = 1 THEN TRUE ELSE rpc[n - 1] = "done"
    /\ testdb' = IF ok THEN [base |-> n, mod |-> "clean"]
                 ELSE IF partial THEN [base |-> n, mod |-> "partial"]
                 ELSE testdb
    /\ Advance(n, "restore", ok,
               [effects[n] EXCEPT !.restore = IF ok THEN "ok" ELSE "failed",
                                  !.order = Append(@, "restore")],
               ErrorResult(n, "Failed to restore DB state"))
    /\ UNCHANGED <<rlocal, rcfg, returned>>

\* step 2: mock.NewServer(snap.OutgoingRequests); mockServer.Start()
StartMock(n, ok) ==
    /\ rpc[n] = "mock"
    /\ Advance(n, "mock", ok,
               [effects[n] EXCEPT !.mock = IF ok THEN "up" ELSE "failed",
                                  !.order = Append(@, "mock")],
               ErrorResult(n, "Failed to start mock server"))
    /\ UNCHANGED <<testdb, rlocal, rcfg, returned>>

\* step 2, a service command is configured: startService(r.config, env)
StartService(n, ok) ==
    /\ rpc[n] = "svc"
    /\ Advance(n, "svc", ok,
               [effects[n] EXCEPT !.svc = IF ok THEN "up" ELSE "failed",
                                  !.env = ServiceEnv(MockURL(n)),
                                  !.order = Append(@, "svc")],
               ErrorResult(n, "Failed to start service"))
    /\ UNCHANGED <<testdb, rlocal, rcfg, returned>>

\* step 3: r.fireRequest(snap.Request); the service answers r and may
\* change the database
FireRequest(n, ok, r, touch) ==
    /\ rpc[n] = "fire"
    /\ rlocal' = [rlocal EXCEPT ![n] = IF ok THEN r ELSE @]
    /\ testdb' = IF ok /\ touch THEN [testdb EXCEPT !.mod = "touched"]
                 ELSE testdb
    /\ Advance(n, "fire", ok,
               [effects[n] EXCEPT !.fired = TRUE, !.order = Append(@, "fire")],
               ErrorResult(n, "Failed to send request"))
    /\ UNCHANGED <<rcfg, returned>>

\* steps 4 and 5: r.snapshotter.SnapshotAll(); AssertResponse, AssertDBState;
\* result.Diffs = append(respDiffs, dbDiffs...); result.Passed = ...
SnapshotAndAssert(n, ok) ==
    /\ rpc[n] = "snap"
    /\ LET diffs == AssertResponse(ExpectedResponse(n), rlocal[n])
                    \o AssertDBState(ExpectedDB(n), testdb) IN
       Advance(n, "snap", ok,
               [effects[n] EXCEPT !.snapped = TRUE, !.order = Append(@, "snap"),
                                  !.sawBase = IF ok THEN testdb.base ELSE @],
               IF ok
               THEN [id |-> n, passed |-> PassedOf(diffs), diffs |-> diffs,
                     error |-> ""]
               ELSE ErrorResult(n, "Failed to snapshot DB after"))
    /\ rlocal' = [rlocal EXCEPT ![n] = NoResp]
    /\ UNCHANGED <<testdb, rcfg, returned>>

\* ReplayAll: every ReplayOne has returned (wg.Wait() or the end of the
\* loop); return results
ReplayAllReturn ==
    /\ ~returned
    /\ \A n \in Snaps : rpc[n] = "done"
    /\ returned' = TRUE
    /\ UNCHANGED <<rpc, result, testdb, rlocal, effects, rcfg>>

ReplayConfigs ==
    [parallel : BOOLEAN, command : BOOLEAN, hasOut : [Snaps -> BOOLEAN]]

ReplayNext ==
    \/ \E c \in ReplayConfigs : ReplayAllCall(c)
    \/ \E n \in Snaps, ok \in BOOLEAN, partial \in BOOLEAN :
           Restore(n, ok, partial)
    \/ \E n \in Snaps, ok \in BOOLEAN : StartMock(n, ok)
    \/ \E n \in Snaps, ok \in BOOLEAN : StartService(n, ok)
    \/ \E n \in Snaps, ok \in BOOLEAN, r \in Responses, touch \in BOOLEAN :
           FireRequest(n, ok, r, touch)
    \/ \E n \in Snaps, ok \in BOOLEAN : SnapshotAndAssert(n, ok)
    \/ ReplayAllReturn

\* ================================================================
\* Middleware stack: authentication, rate limiting, handler
\* ================================================================

\* len(snapshot.AuthSchemeBearer), the length of "Bearer "
AuthSchemeBearerLen == 7

AuthSchemeBearer == "Bearer "

\* an Authorization header value auth: head is auth[:7] (all of it when it
\* is shorter), len is len(auth), tail is auth[7:]
NoHeader == [head |-> "", len |-> 0, tail |-> ""]

\* the configured recording.proxy_auth_token ("" when none is configured)
HarnessToken == "tok"

Headers ==
    {NoHeader,
     [head |-> "Basic x", len |-> 9, tail |-> "yz"],
     [head |-> "Bearer", len |-> 6, tail |-> ""],
     [head |-> "Bearer ", len |-> 10, tail |-> "tok"],
     [head |-> "bearer ", len |-> 10, tail |-> "tok"],
     [head |-> "Bearer ", len |-> 10, tail |-> "bad"]}

\* strings.EqualFold on the header heads above
Lower(str) ==
    CASE str = "Bearer " -> "bearer "
      [] str = "Bearer"  -> "bearer"
      [] str = "Basic x" -> "basic x"
      [] OTHER           -> str

EqualFold(a, b) == Lower(a) = Lower(b)

\* withAuth: the status it answers with, 0 when it calls next
AuthStatusWrongTokenUnauthorized(auth, token) ==
    IF auth.len = 0 THEN 401
    ELSE IF auth.len < AuthSchemeBearerLen
            \/ ~EqualFold(auth.head, AuthSchemeBearer) THEN 401
    ELSE IF auth.tail # token THEN 401
    ELSE 0

AuthStatus(auth, token) ==
    IF auth.len = 0 THEN 401
    ELSE IF auth.len < AuthSchemeBearerLen
            \/ ~EqualFold(auth.head, AuthSchemeBearer) THEN 401
    ELSE IF auth.tail # token THEN 403
    ELSE 0

\* withAuth: req.Header.Del(snapshot.HeaderAuthorization)
StripAuthKeeps(auth) == auth

StripAuth(auth) == NoHeader

\* recording.rate_limit.requests_per_second in tenths (a float64 in the
\* configuration): off, 0.5, 1 and 2.5 requests per second
RpsTenths == {0, 5, 10, 25}

\* rate.NewLimiter(rate.Limit(rps), int(rps)): the burst is int(rps)
Burst(rps) == rps \div 10

MiddlewareConfigs ==
    [token : {"", HarnessToken}, rps : RpsTenths, maxc : 0..MaxConcurrent]

\* Recorder.Start: which wrappers and which limits are in the stack
StageEnabled(c, st) ==
    CASE st = "auth"    -> c.token # ""
      [] st = "limiter" -> c.rps > 0
      [] st = "sem"     -> c.maxc > 0
      [] OTHER          -> TRUE

\* Recorder.Start: handler = r; handler = r.withRateLimit(rl, handler);
\* handler = r.withAuth(token, handler): the stages a request passes,
\* outermost first
StackRateLimitFirst(c) ==
    LET on(st) == StageEnabled(c, st) IN
    SelectSeq(<<"limiter", "sem", "auth", "handler">>, on)

Stack(c) ==
    LET on(st) == StageEnabled(c, st) IN
    SelectSeq(<<"auth", "limiter", "sem", "handler">>, on)

\* the stage after stage p ("" for the stage a request enters first)
NextStage(c, p) ==
    IF p = "" THEN Stack(c)[1]
    ELSE LET k == CHOOSE j \in 1..Len(Stack(c)) : Stack(c)[j] = p IN
         Stack(c)[k + 1]

\* select { case sem <- struct{}{}: ... default: ... }: the send cannot
\* proceed when the channel holds cap(sem) elements
SemFullNever(n, cap) == FALSE

SemFull(n, cap) == n >= cap

NewReq == [pc |-> "idle", orig |-> NoHeader, auth |-> NoHeader,
           status |-> 0, www |-> "",
           tokenTaken |-> FALSE, slotTaken |-> FALSE, handled |-> FALSE,
           waited |-> FALSE, seenInside |-> 0, downstream |-> NoHeader,
           saved |-> FALSE, savedAuth |-> NoHeader,
           path |-> <<>>]

MidInit ==
    /\ mcfg = [token |-> "", rps |-> 0, maxc |-> 0, started |-> FALSE]
    /\ mreq = [q \in Reqs |-> NewReq]
    /\ tokens = 0
    /\ ticks = 0
    /\ sem = 0

\* requests inside the wrapped handler of withRateLimit
Inside == {q \in Reqs : mreq[q].pc \in {"handler", "inside"}}

\* Recorder.Start builds the stack from the configuration; the limiter's
\* bucket starts full
Start(c) ==
    /\ ~mcfg.started
    /\ mcfg' = [token |-> c.token, rps |-> c.rps, maxc |-> c.maxc,
                started |-> TRUE]
    /\ tokens' = Burst(c.rps)
    /\ UNCHANGED <<mreq, ticks, sem>>

\* the http.Server calls the outermost handler for a request
Arrive(q, h) ==
    /\ mcfg.started
    /\ mreq[q].pc = "idle"
    /\ IF q = 1 THEN TRUE ELSE mreq[q - 1].pc # "idle"
    /\ mreq' = [mreq EXCEPT ![q] = [@ EXCEPT !.pc = NextStage(mcfg, ""),
                                             !.orig = h, !.auth = h]]
    /\ UNCHANGED <<mcfg, tokens, ticks, sem>>

\* withAuth
Authenticate(q) ==
    /\ mreq[q].pc = "auth"
    /\ LET st == AuthStatus(mreq[q].auth, mcfg.token) IN
       mreq' = [mreq EXCEPT ![q] =
                  IF st = 0
                  THEN [@ EXCEPT !.pc = NextStage(mcfg, "auth"),
                                 !.auth = StripAuth(@),
                                 !.path = Append(@, "auth")]
                  ELSE [@ EXCEPT !.pc = "done", !.status = st,
                                 !.path = Append(@, "auth"),
                                 !.www = IF mreq[q].auth.len = 0
                                         THEN "Bearer realm=\"snapshot-tester\""
                                         ELSE ""]]
    /\ UNCHANGED <<mcfg, tokens, ticks, sem>>

\* withRateLimit: limiter.Wait(context.Background()) returns: with an error
\* when one token exceeds the burst, else once a token is there
LimiterWait(q) ==
    /\ mreq[q].pc = "limiter"
    /\ IF Burst(mcfg.rps) < 1
       THEN /\ mreq' = [mreq EXCEPT ![q] = [@ EXCEPT !.pc = "done",
                                                     !.status = 429,
                                                     !.path = Append(@, "limiter")]]
            /\ UNCHANGED tokens
       ELSE /\ tokens > 0
            /\ tokens' = tokens - 1
            /\ mreq' = [mreq EXCEPT ![q] =
                          [@ EXCEPT !.pc = NextStage(mcfg, "limiter"),
                                    !.tokenTaken = TRUE,
                                    !.path = Append(@, "limiter")]]
    /\ UNCHANGED <<mcfg, ticks, sem>>

\* withRateLimit: limiter.Wait blocks, the bucket is empty
LimiterBlock(q) ==
    /\ mreq[q].pc = "limiter"
    /\ Burst(mcfg.rps) >= 1
    /\ tokens = 0
    /\ ~mreq[q].waited
    /\ mreq' = [mreq EXCEPT ![q].waited = TRUE]
    /\ UNCHANGED <<mcfg, tokens, ticks, sem>>

\* time passes: the bucket gains a token, up to its burst
Tick ==
    /\ mcfg.started
    /\ ticks < MaxTicks
    /\ tokens < Burst(mcfg.rps)
    /\ tokens' = tokens + 1
    /\ ticks' = ticks + 1
    /\ UNCHANGED <<mcfg, mreq, sem>>

\* withRateLimit: the non-blocking send on sem, else 503
Acquire(q) ==
    /\ mreq[q].pc = "sem"
    /\ IF SemFull(sem, mcfg.maxc)
       THEN /\ mreq' = [mreq EXCEPT ![q] =
                          [@ EXCEPT !.pc = "done", !.status = 503,
                                    !.seenInside = Cardinality(Inside),
                                    !.path = Append(@, "sem")]]
            /\ UNCHANGED sem
       ELSE /\ sem' = sem + 1
            /\ mreq' = [mreq EXCEPT ![q] =
                          [@ EXCEPT !.pc = NextStage(mcfg, "sem"),
                                    !.slotTaken = TRUE,
                                    !.seenInside = Cardinality(Inside),
                                    !.path = Append(@, "sem")]]
    /\ UNCHANGED <<mcfg, tokens, ticks>>

\* next.ServeHTTP(w, req) reaches Recorder.ServeHTTP, which takes the DB
\* snapshots, drains and forwards the request with the headers it has now
HandlerEnter(q) ==
    /\ mreq[q].pc = "handler"
    /\ mreq' = [mreq EXCEPT ![q] = [@ EXCEPT !.pc = "inside",
                                             !.handled = TRUE,
                                             !.downstream = mreq[q].auth,
                                             !.path = Append(@, "handler")]]
    /\ UNCHANGED <<mcfg, tokens, ticks, sem>>

\* buildSnapshot: the headers come from req.Header of the request that
\* Recorder.ServeHTTP was called with: its Authorization value
SnapshotAuthFromOriginal(r) == r.orig

SnapshotAuth(r) == r.auth

\* Recorder.ServeHTTP builds and saves the snapshot and returns (its paths
\* that save nothing are steps of the recording proxy above);
\* withRateLimit's deferred <-sem runs
HandlerReturn(q) ==
    /\ mreq[q].pc = "inside"
    /\ mreq' = [mreq EXCEPT ![q] =
                  [@ EXCEPT !.pc = "done", !.status = 200,
                            !.saved = TRUE,
                            !.savedAuth = SnapshotAuth(mreq[q])]]
    /\ sem' = IF mreq[q].slotTaken THEN sem - 1 ELSE sem
    /\ UNCHANGED <<mcfg, tokens, ticks>>

MiddlewareNext ==
    \/ ~mcfg.started /\ \E c \in MiddlewareConfigs : Start(c)
    \/ \E q \in Reqs, h \in Headers : Arrive(q, h)
    \/ \E q \in Reqs : Authenticate(q)
    \/ \E q \in Reqs : LimiterWait(q)
    \/ \E q \in Reqs : LimiterBlock(q)
    \/ Tick
    \/ \E q \in Reqs : Acquire(q)
    \/ \E q \in Reqs : HandlerEnter(q)
    \/ \E q \in Reqs : HandlerReturn(q)

\* ================================================================
\* Mock server
\* ================================================================

\* a URL string is the sequence of its parts: a host part "http://h" (only
\* in an absolute URL), path segments "/a", and a query part "?q"
Methods == {"GET", "POST"}

Paths == {<<"/a">>, <<"/b", "/a">>}

Queries == {<<>>, <<"?q">>}

\* the recorded outgoing requests: method, URL (path and query, as
\* r.URL.RequestURI() gave it) and the recorded response (NoResp: none)
Expectation ==
    [method : Methods,
     url : {<<"/a">>, <<"/a", "?q">>, <<"/b", "/a">>, <<"/c", "/a">>},
     response : Responses \cup {NoResp}]

RecordedLists ==
    UNION {[1..k -> Expectation] : k \in 0..MaxExp}

\* an inbound call: r.Method, r.URL (host only for an absolute URL)
InboundCalls ==
    [method : Methods, host : {<<>>, <<"http://h">>}, path : Paths,
     query : Queries]

\* r.URL.String()
URLString(call) == call.host \o call.path \o call.query

\* requestKey: method + ":" + url
requestKey(method, url) == <<method, ":">> \o url

\* strings.HasPrefix and strings.HasSuffix
HasPrefix(str, pre) ==
    Len(pre) =< Len(str) /\ SubSeq(str, 1, Len(pre)) = pre

HasSuffix(str, suf) ==
    Len(suf) =< Len(str)
    /\ SubSeq(str, Len(str) - Len(suf) + 1, Len(str)) = suf

KeyOf(out, i) == requestKey(out[i].method, out[i].url)

\* NewServer: expectations[key] = &outgoing[i] for i in order, so of the
\* entries with one key the last is kept: the indices of the kept entries
Kept(out) ==
    {i \in 1..Len(out) : \A j \in (i + 1)..Len(out) : KeyOf(out, j) # KeyOf(out, i)}

\* handleRequest, strategy 1: s.expectations[requestKey(r.Method, r.URL.String())]
ExactMatch(out, call) ==
    {i \in Kept(out) : KeyOf(out, i) = requestKey(call.method, URLString(call))}

\* strategy 2: s.expectations[requestKey(r.Method, r.URL.Path)]
PathMatch(out, call) ==
    {i \in Kept(out) : KeyOf(out, i) = requestKey(call.method, call.path)}

\* strategy 3: the range over s.expectations stops at the first key (in the
\* map's iteration order, which is not fixed) with the prefix r.Method + ":"
\* and the suffix r.URL.Path
SuffixMatch(out, call) ==
    {i \in Kept(out) : /\ HasPrefix(KeyOf(out, i), <<call.method, ":">>)
                       /\ HasSuffix(KeyOf(out, i), call.path)}

\* handleRequest: the expectations the lookup can end with (none: a miss)
CandidatesSuffixFirst(out, call) ==
    IF SuffixMatch(out, call) # {} THEN SuffixMatch(out, call)
    ELSE IF ExactMatch(out, call) # {} THEN ExactMatch(out, call)
    ELSE PathMatch(out, call)

Candidates(out, call) ==
    IF ExactMatch(out, call) # {} THEN ExactMatch(out, call)
    ELSE IF PathMatch(out, call) # {} THEN PathMatch(out, call)
    ELSE SuffixMatch(out, call)

\* handleRequest: s.calls = append(s.calls, call)
RecordCallOnlyMatched(cs, call) ==
    IF call.response = NoResp THEN cs ELSE Append(cs, call)

RecordCall(cs, call) == Append(cs, call)

MockInit ==
    /\ mock = [loaded |-> FALSE, out |-> <<>>]
    /\ mcalls = <<>>
    /\ manswers = <<>>

\* mock.NewServer(snap.OutgoingRequests)
NewServer(out) ==
    /\ ~mock.loaded
    /\ mock' = [loaded |-> TRUE, out |-> out]
    /\ UNCHANGED <<mcalls, manswers>>

\* the server is started and takes a further inbound call
Serving == mock.loaded /\ Len(manswers) < NumMockCalls

\* handleRequest: io.ReadAll(r.Body) fails: 500, return
HandleReadFail(call) ==
    /\ Serving
    /\ manswers' = Append(manswers,
                          [call |-> call, lookup |-> FALSE, chosen |-> 0,
                           status |-> 500,
                           body |-> "{\"error\": \"failed to read request body\"}",
                           recorded |-> 0])
    /\ UNCHANGED <<mock, mcalls>>

\* handleRequest with the body read, under s.mu: the lookup ends with
\* expectation c (0: with none), the call is recorded and answered
HandleRequest(call, c, marshalOk) ==
    /\ Serving
    /\ IF Candidates(mock.out, call) = {} THEN c = 0
       ELSE c \in Candidates(mock.out, call)
    /\ LET resp == IF c = 0 THEN NoResp ELSE mock.out[c].response
           seen == [method |-> call.method, url |-> URLString(call),
                    response |-> resp] IN
       /\ mcalls' = RecordCall(mcalls, seen)
       /\ manswers' = Append(manswers,
            [call |-> call, lookup |-> TRUE, chosen |-> c,
             status |-> IF resp # NoResp THEN resp.status ELSE 502,
             body |-> IF resp # NoResp
                      THEN (IF marshalOk THEN resp.body ELSE "")
                      ELSE "{\"error\": \"no mock expectation matched\"}",
             recorded |-> Len(mcalls')])
    /\ UNCHANGED mock

MockNext ==
    \/ ~mock.loaded /\ \E out \in RecordedLists : NewServer(out)
    \/ Serving /\ \E call \in InboundCalls : HandleReadFail(call)
    \/ Serving /\ \E call \in InboundCalls, c \in 0..MaxExp,
                     marshalOk \in BOOLEAN :
                       HandleRequest(call, c, marshalOk)

\* ================================================================
\* The snapshot store (package snapshot): Store.Save, Store.Load,
\* Store.Update and Store.nextSeqNumber on one endpoint directory
\* ================================================================

\* ---- file names: sequences of one-byte characters, closed by the extension
Digit == <<"0", "1", "2", "3", "4", "5", "6", "7", "8", "9">>
Ext == ".snapshot.json"
IsDigit(c) == \E d \in 1..10 : Digit[d] = c
DigitVal(c) == (CHOOSE d \in 1..10 : Digit[d] = c) - 1

RECURSIVE Decimal(_)
\* the decimal digits of n >= 0, as fmt prints them for %d
Decimal(n) ==
    IF n < 10 THEN <<Digit[n + 1]>>
    ELSE Decimal(n \div 10) \o <<Digit[(n % 10) + 1]>>

RECURSIVE ZeroPad(_, _)
\* the flag 0 with a width: zeros in front up to the width, never a cut
ZeroPad(ds, width) ==
    IF Len(ds) >= width THEN ds ELSE ZeroPad(<<"0">> \o ds, width)

\* sanitizeForFilename on the ids GenerateID returns (hex digits: no
\* "/", ":" or " " to replace, no leading "_" to trim, never empty)
sanitizeForFilename(s) == s

\* the file name without the slug, as a name-per-number scheme would build it
FileNameSeqOnly(seq, id) ==
    ZeroPad(Decimal(seq), SeqWidth) \o <<"_", Ext>>

\* fmt.Sprintf("%03d_%s.snapshot.%s", seq, slug, ext)
FileName(seq, id) ==
    ZeroPad(Decimal(seq), SeqWidth) \o <<"_", sanitizeForFilename(id), Ext>>

\* len(name) in bytes
ByteLen(name) ==
    Len(name) + (IF Len(name) > 0 /\ name[Len(name)] = Ext THEN 13 ELSE 0)

RECURSIVE DigitRun(_, _)
\* the longest run of digits at the start of s, at most limit long
DigitRun(s, limit) ==
    IF limit = 0 \/ s = <<>> \/ ~IsDigit(Head(s)) THEN <<>>
    ELSE <<Head(s)>> \o DigitRun(Tail(s), limit - 1)

RECURSIVE Value(_)
Value(ds) ==
    IF ds = <<>> THEN 0 ELSE 10 * Value(SubSeq(ds, 1, Len(ds) - 1)) + DigitVal(ds[Len(ds)])

\* fmt.Sscanf(name, "%03d_", &n): the verb reads at most SeqWidth
\* characters of the number, then the input has to go on with "_"
Sscanf(name) ==
    LET ds == DigitRun(name, SeqWidth)
    IN  IF ds # <<>> /\ Len(name) > Len(ds) /\ name[Len(ds) + 1] = "_"
        THEN [ok |-> TRUE, n |-> Value(ds)]
        ELSE [ok |-> FALSE, n |-> 0]

RECURSIVE MaxOver(_, _)
\* the loop of nextSeqNumber over the directory's entries
MaxOver(entries, max) ==
    IF entries = {} THEN max
    ELSE LET name == CHOOSE e \in entries : TRUE
             got == Sscanf(name)
             m == IF ByteLen(name) >= 3 /\ got.ok /\ got.n > max THEN got.n ELSE max
         IN  MaxOver(entries \ {name}, m)

nextSeqNumber(entries) == MaxOver(entries, 0) + 1

\* ---- snapshots and their files
\* a number of a DB row as q * 2^53 + r: an int64 a scan of the database
\* returns, and the decimal literal encoding/json writes for it
Numbers == {[q |-> 0, r |-> 1], [q |-> 1, r |-> 1]}

\* the float64 nearest to a number (ties to the even mantissa): exact below
\* 2^53, every second integer from there on
Float64(x) ==
    IF x.q = 0 THEN x
    ELSE [q |-> x.q, r |-> IF x.r % 4 = 1 THEN x.r - 1
                           ELSE IF x.r % 4 = 3 THEN x.r + 1 ELSE x.r]

\* json.Unmarshal of a number into `any`: a float64
UnmarshalNumber(x) == Float64(x)

\* json.Marshal of an int64 or of a whole float64: its decimal digits
MarshalNumber(x) == x

Statuses == {200, 500}
HexIDs == <<"a1", "b2", "c3", "d4">>
GeneratedIDs == {HexIDs[k] : k \in 1..MaxSaves}
Stamp == "t0"
ServiceName == "svc"
NoTags == <<>>
TheRequest == [method |-> "GET", url |-> "/x"]
NoOutgoing == <<>>

\* db_diff as the two states ComputeDiff is given
DBDiff(before, after) == [before |-> before, after |-> after]

\* Snapshot: the struct and the document Store.marshal writes for it
NewSnapshot(id, before, status, after) ==
    [id |-> id, timestamp |-> Stamp, service |-> ServiceName, tags |-> NoTags,
     db_state_before |-> before, request |-> TheRequest,
     outgoing_requests |-> NoOutgoing, response |-> status,
     db_state_after |-> after, db_diff |-> DBDiff(before, after)]

marshal(snap) ==
    [snap EXCEPT !.db_state_before = MarshalNumber(@),
                 !.db_state_after = MarshalNumber(@),
                 !.db_diff = DBDiff(MarshalNumber(@.before), MarshalNumber(@.after))]

unmarshal(data) ==
    [data EXCEPT !.db_state_before = UnmarshalNumber(@),
                 !.db_state_after = UnmarshalNumber(@),
                 !.db_diff = DBDiff(UnmarshalNumber(@.before), UnmarshalNumber(@.after))]

\* directories a run can find: empty, with a gap in the numbers, with the
\* last three-digit number, with a file that is no snapshot
Notes == <<"n", "o", "t", "e", "s">>
Directories == {{}, {FileName(1, "p0"), FileName(3, "q0")}, {FileName(999, "r0")},
                {Notes, FileName(1, "p0")}}
OldContent(name) ==
    NewSnapshot(IF Len(name) = 6 THEN name[5] ELSE "none",
                [q |-> 1, r |-> 1], 200, [q |-> 1, r |-> 1])

Savers == 1..NumSavers
NoOp == [kind |-> "none", path |-> <<>>, status |-> 0, after |-> [q |-> 0, r |-> 0]]
IdleSaver == [pc |-> "idle", seq |-> 0, snap |-> "none", began |-> 0, present |-> {}]

StoreInit ==
    /\ disk = [n \in {} |-> 0]
    /\ opened = FALSE
    /\ sv = [i \in Savers |-> IdleSaver]
    /\ issued = {}
    /\ saveLog = <<>>
    /\ op = NoOp
    /\ updates = 0

\* the endpoint directory as the run finds it
OpenDir(names) ==
    /\ ~opened
    /\ opened' = TRUE
    /\ disk' = [n \in names |-> OldContent(n)]
    /\ UNCHANGED <<sv, issued, saveLog, op, updates>>

\* os.WriteFile(path, data, 0o644): creates the file or replaces its content
WriteFile(d, path, data) ==
    [n \in DOMAIN d \cup {path} |-> IF n = path THEN data ELSE d[n]]

\* GenerateID: 6 bytes of crypto/rand in hex; no two calls return the same id
GenerateID(used) == GeneratedIDs \ used

\* Recorder.buildSnapshot for a call that got 200 and left the database as
\* it was, and Store.Save up to nextSeqNumber (os.MkdirAll, then os.ReadDir
\* and the loop over its entries)
SaveBegin(i, id, state) ==
    /\ opened
    /\ sv[i].pc = "idle"
    /\ Cardinality(issued) < MaxSaves
    /\ id \in GenerateID(issued)
    /\ issued' = issued \cup {id}
    /\ sv' = [sv EXCEPT ![i] = [pc |-> "write",
                                seq |-> nextSeqNumber(DOMAIN disk),
                                snap |-> NewSnapshot(id, state, 200, state),
                                began |-> Len(saveLog),
                                present |-> DOMAIN disk]]
    /\ UNCHANGED <<disk, opened, saveLog, op, updates>>

\* the rest of Store.Save: the file name, marshal and os.WriteFile
SaveWrite(i, ok) ==
    /\ sv[i].pc = "write"
    /\ LET path == FileName(sv[i].seq, sv[i].snap.id)
       IN  /\ disk' = IF ok THEN WriteFile(disk, path, marshal(sv[i].snap)) ELSE disk
           /\ saveLog' = IF ok THEN Append(saveLog, [seq |-> sv[i].seq, began |-> sv[i].began,
                                                 present |-> sv[i].present, path |-> path])
                       ELSE saveLog
           /\ op' = [NoOp EXCEPT !.kind = IF ok THEN "save" ELSE "none", !.path = path]
    /\ sv' = [sv EXCEPT ![i] = IdleSaver]
    /\ UNCHANGED <<opened, issued, updates>>

\* Store.Load(path): os.ReadFile and unmarshal
Load(path) == unmarshal(disk[path])

\* Store.Update(path, snap): marshal and os.WriteFile
Update(path, snap, ok) ==
    /\ disk' = IF ok THEN WriteFile(disk, path, marshal(snap)) ELSE disk
    /\ op' = [kind |-> IF ok THEN "update" ELSE "none", path |-> path,
              status |-> snap.response, after |-> snap.db_state_after]

IsSnapshotFile(name) == Len(name) > 0 /\ name[Len(name)] = Ext

\* the update command: Load, ReplayOne, and if the replay ran and did not
\* pass, a second restore, request and DB scan whose values replace
\* response, db_state_after and db_diff before Store.Update; `failed` names
\* the step that returned an error, if one did
UpdateCmd(path, failed, status1, after1, status2, after2, ok) ==
    /\ opened
    /\ updates < MaxUpdates
    /\ path \in DOMAIN disk
    /\ IsSnapshotFile(path)
    /\ LET snap == Load(path)
           passed == status1 = snap.response /\ UnmarshalNumber(after1) = snap.db_state_after
           fresh == [snap EXCEPT !.response = status2,
                                 !.db_state_after = after2,
                                 !.db_diff = DBDiff(snap.db_state_before, after2)]
       IN  IF failed = "none" /\ ~passed
           THEN Update(path, fresh, ok)
           ELSE disk' = disk /\ op' = [NoOp EXCEPT !.path = path]
    /\ updates' = updates + 1
    /\ UNCHANGED <<opened, sv, issued, saveLog>>

\* the replay command: Store.Load, LoadByTag or LoadAll, then ReplayAll and
\* the report on standard output
ReplayCmd ==
    /\ opened
    /\ op' = [NoOp EXCEPT !.kind = "replay"]
    /\ UNCHANGED <<disk, opened, sv, issued, saveLog, updates>>

StoreNext ==
    \/ ~opened /\ \E names \in Directories : OpenDir(names)
    \/ \E i \in Savers, id \in GeneratedIDs, state \in Numbers :
           SaveBegin(i, id, state)
    \/ \E i \in Savers, ok \in BOOLEAN : SaveWrite(i, ok)
    \/ /\ opened /\ updates < MaxUpdates
       /\ \E path \in DOMAIN disk, failed \in {"none", "replay", "capture"}, ok \in BOOLEAN,
             status1, status2 \in Statuses, after1, after2 \in Numbers :
              UpdateCmd(path, failed, status1, after1, status2, after2, ok)
    \/ ReplayCmd

\* ================================================================
\* The body codec (package snapshot): ParseBody and DecodeBody
\* ================================================================

\* ---- bytes: a body is a sequence of bytes 0..255
Ch == [quote |-> 34, plus |-> 43, comma |-> 44, slash |-> 47, zero |-> 48,
       nine |-> 57, colon |-> 58, eq |-> 61, upA |-> 65, backslash |-> 92,
       a |-> 97, lbrace |-> 123, rbrace |-> 125, space |-> 32,
       lt |-> 60, gt |-> 62, amp |-> 38, u |-> 117]

\* ---- encoding/base64, StdEncoding
\* the character of a 6-bit value
B64Char(v) ==
    IF v < 26 THEN Ch.upA + v
    ELSE IF v < 52 THEN Ch.a + (v - 26)
    ELSE IF v < 62 THEN Ch.zero + (v - 52)
    ELSE IF v = 62 THEN Ch.plus ELSE Ch.slash

\* the 6-bit value of a character, -1 if it is none of the alphabet
B64Val(c) ==
    IF c >= Ch.upA /\ c < Ch.upA + 26 THEN c - Ch.upA
    ELSE IF c >= Ch.a /\ c < Ch.a + 26 THEN c - Ch.a + 26
    ELSE IF c >= Ch.zero /\ c <= Ch.nine THEN c - Ch.zero + 52
    ELSE IF c = Ch.plus THEN 62
    ELSE IF c = Ch.slash THEN 63 ELSE -1

RECURSIVE EncodeToString(_)
EncodeToString(raw) ==
    IF raw = <<>> THEN <<>>
    ELSE IF Len(raw) = 1 THEN
        <<B64Char(raw[1] \div 4), B64Char((raw[1] % 4) * 16), Ch.eq, Ch.eq>>
    ELSE IF Len(raw) = 2 THEN
        <<B64Char(raw[1] \div 4),
          B64Char((raw[1] % 4) * 16 + raw[2] \div 16),
          B64Char((raw[2] % 16) * 4), Ch.eq>>
    ELSE
        <<B64Char(raw[1] \div 4),
          B64Char((raw[1] % 4) * 16 + raw[2] \div 16),
          B64Char((raw[2] % 16) * 4 + raw[3] \div 64),
          B64Char(raw[3] % 64)>> \o EncodeToString(SubSeq(raw, 4, Len(raw)))

RECURSIVE DecodeString(_)
\* [ok, bytes]: a quantum of four characters at a time, padding only at the end
DecodeString(s) ==
    IF s = <<>> THEN [ok |-> TRUE, bytes |-> <<>>]
    ELSE IF Len(s) < 4 THEN [ok |-> FALSE, bytes |-> <<>>]
    ELSE
        LET v1 == B64Val(s[1])
            v2 == B64Val(s[2])
            v3 == B64Val(s[3])
            v4 == B64Val(s[4])
            last == Len(s) = 4
            rest == DecodeString(SubSeq(s, 5, Len(s)))
        IN  IF v1 < 0 \/ v2 < 0 THEN [ok |-> FALSE, bytes |-> <<>>]
            ELSE IF s[3] = Ch.eq THEN
                IF last /\ s[4] = Ch.eq
                THEN [ok |-> TRUE, bytes |-> <<v1 * 4 + v2 \div 16>>]
                ELSE [ok |-> FALSE, bytes |-> <<>>]
            ELSE IF v3 < 0 THEN [ok |-> FALSE, bytes |-> <<>>]
            ELSE IF s[4] = Ch.eq THEN
                IF last
                THEN [ok |-> TRUE,
                      bytes |-> <<v1 * 4 + v2 \div 16, (v2 % 16) * 16 + v3 \div 4>>]
                ELSE [ok |-> FALSE, bytes |-> <<>>]
            ELSE IF v4 < 0 \/ ~rest.ok THEN [ok |-> FALSE, bytes |-> <<>>]
            ELSE [ok |-> TRUE,
                  bytes |-> <<v1 * 4 + v2 \div 16, (v2 % 16) * 16 + v3 \div 4,
                              (v3 % 4) * 64 + v4>> \o rest.bytes]

\* ---- content types: sequences of the pieces the classification looks for
ContentTypes ==
    {<<>>, <<"application/", "json">>, <<"application/", "json-rpc">>,
     <<"text/", "plain">>, <<"TEXT/", "PLAIN">>, <<"application/", "xml">>,
     <<"application/x-www-", "form-urlencoded">>, <<"application/octet-stream">>,
     <<"application/", "x-custom">>}

ToLowerPiece(p) ==
    IF p = "TEXT/" THEN "text/" ELSE IF p = "PLAIN" THEN "plain" ELSE p

\* strings.ToLower
ToLower(ct) == [i \in 1..Len(ct) |-> ToLowerPiece(ct[i])]

\* strings.Contains, for a piece the content types are cut at
Contains(ct, piece) == \E i \in 1..Len(ct) : ct[i] = piece

isBinaryContentType(ct) ==
    /\ Len(ct) > 0
    /\ ct[1] \in {"application/grpc", "application/grpc-web",
                  "application/grpc-web+proto", "application/protobuf",
                  "application/x-protobuf", "application/x-google-protobuf",
                  "application/msgpack", "application/x-msgpack",
                  "application/octet-stream", "application/cbor",
                  "application/thrift", "application/avro",
                  "application/flatbuffers"}

isJSONContentType(ct) == Contains(ct, "json") \/ Contains(ct, "json-rpc")

isTextContentType(ct) ==
    \/ Len(ct) > 0 /\ ct[1] = "text/"
    \/ Contains(ct, "xml")
    \/ Contains(ct, "html")
    \/ Contains(ct, "form-urlencoded")

\* ---- encoding/json on the documents of the model: spaces, strings without
\* escapes, whole numbers and objects. A value is [t |-> "null"],
\* [t |-> "num", v |-> n], [t |-> "str", v |-> bytes] or
\* [t |-> "obj", v |-> [key -> value]]
JNull == [t |-> "null"]
JFail == [ok |-> FALSE, v |-> JNull, next |-> 0]
Replacement == <<239, 191, 189>>

RECURSIVE SkipSpace(_, _)
SkipSpace(s, i) ==
    IF i <= Len(s) /\ s[i] = Ch.space THEN SkipSpace(s, i + 1) ELSE i

RECURSIVE StringEnd(_, _)
\* the index of the quote that closes a string whose content starts at i,
\* 0 if there is none or the content has a backslash or a control character
StringEnd(s, i) ==
    IF i > Len(s) \/ s[i] = Ch.backslash \/ s[i] < Ch.space THEN 0
    ELSE IF s[i] = Ch.quote THEN i
    ELSE StringEnd(s, i + 1)

RECURSIVE Utf8(_)
\* the decoder's string: every byte that is no UTF-8 becomes U+FFFD
Utf8(bytes) ==
    IF bytes = <<>> THEN <<>>
    ELSE (IF Head(bytes) > 247 THEN Replacement ELSE <<Head(bytes)>>) \o Utf8(Tail(bytes))

ParseString(s, i) ==
    IF i > Len(s) \/ s[i] # Ch.quote THEN JFail
    ELSE LET j == StringEnd(s, i + 1)
         IN  IF j = 0 THEN JFail
             ELSE [ok |-> TRUE, v |-> [t |-> "str", v |-> Utf8(SubSeq(s, i + 1, j - 1))],
                   next |-> j + 1]

IsNum(c) == c >= Ch.zero /\ c <= Ch.nine

RECURSIVE NumEnd(_, _)
NumEnd(s, i) == IF i <= Len(s) /\ IsNum(s[i]) THEN NumEnd(s, i + 1) ELSE i

RECURSIVE NumValue(_)
NumValue(ds) ==
    IF ds = <<>> THEN 0
    ELSE 10 * NumValue(SubSeq(ds, 1, Len(ds) - 1)) + (ds[Len(ds)] - Ch.zero)

\* a number: 0, or digits that do not start with 0
ParseNumber(s, i) ==
    LET j == NumEnd(s, i)
    IN  IF j = i \/ (s[i] = Ch.zero /\ j > i + 1) THEN JFail
        ELSE [ok |-> TRUE, v |-> [t |-> "num", v |-> NumValue(SubSeq(s, i, j - 1))],
              next |-> j]

RECURSIVE ParseValue(_, _)
RECURSIVE ParseMembers(_, _, _)

\* the members of an object from the key at i on; a later key replaces an
\* earlier equal one
ParseMembers(s, i, acc) ==
    LET k == ParseString(s, SkipSpace(s, i))
        c == SkipSpace(s, k.next)
        val == ParseValue(s, c + 1)
        e == SkipSpace(s, val.next)
        obj == [x \in DOMAIN acc \cup {k.v.v} |-> IF x = k.v.v THEN val.v ELSE acc[x]]
    IN  IF ~k.ok \/ c > Len(s) \/ s[c] # Ch.colon THEN JFail
        ELSE IF ~val.ok \/ e > Len(s) THEN JFail
        ELSE IF s[e] = Ch.rbrace THEN [ok |-> TRUE, v |-> [t |-> "obj", v |-> obj], next |-> e + 1]
        ELSE IF s[e] = Ch.comma THEN ParseMembers(s, e + 1, obj)
        ELSE JFail

ParseValue(s, i0) ==
    LET i == SkipSpace(s, i0)
    IN  IF i > Len(s) THEN JFail
        ELSE IF s[i] = Ch.quote THEN ParseString(s, i)
        ELSE IF IsNum(s[i]) THEN ParseNumber(s, i)
        ELSE IF s[i] = Ch.lbrace THEN
            LET j == SkipSpace(s, i + 1)
            IN  IF j <= Len(s) /\ s[j] = Ch.rbrace
                THEN [ok |-> TRUE, v |-> [t |-> "obj", v |-> [x \in {} |-> JNull]], next |-> j + 1]
                ELSE ParseMembers(s, j, [x \in {} |-> JNull])
        ELSE JFail

\* json.Unmarshal(raw, &parsed): one value, nothing but spaces after it
Unmarshal(raw) ==
    LET r == ParseValue(raw, 1)
    IN  IF r.ok /\ SkipSpace(raw, r.next) = Len(raw) + 1
        THEN [ok |-> TRUE, v |-> r.v] ELSE [ok |-> FALSE, v |-> JNull]

RECURSIVE NumText(_)
NumText(n) ==
    IF n < 10 THEN <<Ch.zero + n>> ELSE NumText(n \div 10) \o <<Ch.zero + (n % 10)>>

Hex4(c) == <<Ch.backslash, Ch.u, Ch.zero, Ch.zero>> \o
           <<(IF (c \div 16) < 10 THEN Ch.zero + (c \div 16) ELSE Ch.a + ((c \div 16) - 10)),
             (IF (c % 16) < 10 THEN Ch.zero + (c % 16) ELSE Ch.a + ((c % 16) - 10))>>

RECURSIVE Escaped(_)
\* the content of a string as json.Marshal writes it: quote and backslash
\* behind a backslash, <, > and & as \u00XX, what is no UTF-8 as the escape of U+FFFD
Escaped(bytes) ==
    IF bytes = <<>> THEN <<>>
    ELSE LET c == Head(bytes)
         IN  (IF c = Ch.quote \/ c = Ch.backslash THEN <<Ch.backslash, c>>
              ELSE IF c \in {Ch.lt, Ch.gt, Ch.amp} \/ c < Ch.space THEN Hex4(c)
              ELSE IF c > 247 THEN <<Ch.backslash, Ch.u, 102, 102, 102, 100>>
              ELSE <<c>>) \o Escaped(Tail(bytes))

RECURSIVE LexLess(_, _)
LexLess(x, y) ==
    IF x = <<>> THEN y # <<>>
    ELSE IF y = <<>> THEN FALSE
    ELSE IF Head(x) # Head(y) THEN Head(x) < Head(y)
    ELSE LexLess(Tail(x), Tail(y))

RECURSIVE Marshal(_)
RECURSIVE MarshalMembers(_, _)
\* the members of an object, keys in sorted order
MarshalMembers(obj, keys) ==
    IF keys = {} THEN <<>>
    ELSE LET k == CHOOSE x \in keys : \A y \in keys \ {x} : LexLess(x, y)
             m == <<Ch.quote>> \o Escaped(k) \o <<Ch.quote, Ch.colon>> \o Marshal(obj[k])
         IN  IF keys = {k} THEN m ELSE m \o <<Ch.comma>> \o MarshalMembers(obj, keys \ {k})

\* json.Marshal of a decoded value
Marshal(v) ==
    IF v.t = "null" THEN <<110, 117, 108, 108>>
    ELSE IF v.t = "num" THEN NumText(v.v)
    ELSE IF v.t = "str" THEN <<Ch.quote>> \o Escaped(v.v) \o <<Ch.quote>>
    ELSE <<Ch.lbrace>> \o MarshalMembers(v.v, DOMAIN v.v) \o <<Ch.rbrace>>

\* ---- ParseBody and DecodeBody. A body is a decoded JSON value (a Go nil,
\* float64, string or map) or an *EncodedBody, [t |-> "encoded", ...]
BodyEncodingBase64 == <<98, 97, 115, 101, 54, 52>>
BodyEncodingText == <<116, 101, 120, 116>>
KeyEncoding == <<101, 110, 99, 111, 100, 105, 110, 103>>
KeyData == <<100, 97, 116, 97>>

EncodedBody(data, encoding) == [t |-> "encoded", data |-> data, encoding |-> encoding]

\* the loop over the runes of string(raw): a byte that is no UTF-8 comes
\* out as U+FFFD, and so do the three bytes that spell U+FFFD
HasReplacementChar(raw) ==
    \/ \E i \in 1..Len(raw) : raw[i] > 247
    \/ \E i \in 1..(Len(raw) - 2) : SubSeq(raw, i, i + 2) = Replacement

ParseBody(raw, contentType) ==
    LET ct == ToLower(contentType)
        js == Unmarshal(raw)
    IN  IF Len(raw) = 0 THEN JNull
        ELSE IF isBinaryContentType(ct) THEN EncodedBody(EncodeToString(raw), BodyEncodingBase64)
        ELSE IF (isJSONContentType(ct) \/ ct = <<>>) /\ js.ok THEN js.v
        ELSE IF isTextContentType(ct) THEN [t |-> "str", v |-> raw]
        ELSE IF js.ok THEN js.v
        ELSE IF HasReplacementChar(raw) THEN EncodedBody(EncodeToString(raw), BodyEncodingBase64)
        ELSE [t |-> "str", v |-> raw]

\* whether ParseBody returns what json.Unmarshal made of the body
ParsedAsJSON(raw, contentType) ==
    LET ct == ToLower(contentType)
    IN  /\ Len(raw) > 0
        /\ ~isBinaryContentType(ct)
        /\ Unmarshal(raw).ok
        /\ (isJSONContentType(ct) \/ ct = <<>> \/ ~isTextContentType(ct))

\* m["data"].(string), eb.Data.(string): the string, or "" for anything else
AsString(v) == IF v.t = "str" THEN v.v ELSE <<>>

\* json.Marshal of an *EncodedBody: data, then encoding unless it is empty
MarshalEncoded(body) ==
    <<Ch.lbrace, Ch.quote>> \o KeyData \o <<Ch.quote, Ch.colon, Ch.quote>>
        \o Escaped(body.data) \o <<Ch.quote>>
        \o (IF body.encoding = <<>> THEN <<>>
            ELSE <<Ch.comma, Ch.quote>> \o KeyEncoding \o <<Ch.quote, Ch.colon, Ch.quote>>
                     \o Escaped(body.encoding) \o <<Ch.quote>>)
        \o <<Ch.rbrace>>

\* DecodeBody: [ok, bytes]
DecodeBody(body) ==
    IF body.t = "null" THEN [ok |-> TRUE, bytes |-> <<>>]
    ELSE IF body.t = "obj" /\ KeyEncoding \in DOMAIN body.v
              /\ body.v[KeyEncoding] = [t |-> "str", v |-> BodyEncodingBase64]
         THEN DecodeString(IF KeyData \in DOMAIN body.v THEN AsString(body.v[KeyData]) ELSE <<>>)
    ELSE IF body.t = "obj" /\ KeyEncoding \in DOMAIN body.v
              /\ body.v[KeyEncoding] = [t |-> "str", v |-> BodyEncodingText]
         THEN [ok |-> TRUE,
               bytes |-> IF KeyData \in DOMAIN body.v THEN AsString(body.v[KeyData]) ELSE <<>>]
    ELSE IF body.t = "encoded" /\ body.encoding = BodyEncodingBase64
         THEN DecodeString(body.data)
    ELSE IF body.t = "encoded" /\ body.encoding = BodyEncodingText
         THEN [ok |-> TRUE, bytes |-> body.data]
    ELSE IF body.t = "encoded" THEN [ok |-> TRUE, bytes |-> MarshalEncoded(body)]
    ELSE [ok |-> TRUE, bytes |-> Marshal(body)]

\* ---- the bodies of the model
BodyAlphabet == {Ch.quote, Ch.zero + 1, 104, 255}
ShortBodies == UNION {[1..n -> BodyAlphabet] : n \in 0..MaxBodyLen}
\* {"a":1}, the same with a space, and a document that looks like an
\* EncodedBody: {"encoding":"base64","data":"aGk="}
JSONBodies == {<<123, 34, 97, 34, 58, 49, 125>>, <<123, 32, 34, 97, 34, 58, 49, 125>>,
               <<123, 34, 101, 110, 99, 111, 100, 105, 110, 103, 34, 58, 34, 98, 97, 115, 101, 54, 52, 34, 44, 34, 100, 97, 116, 97, 34, 58, 34, 97, 71, 107, 61, 34, 125>>}
Bodies == ShortBodies \cup JSONBodies

NoBody == [stage |-> "none", raw |-> <<>>, ct |-> <<>>, parsed |-> JNull,
           decoded |-> [ok |-> FALSE, bytes |-> <<>>]]

BodyInit == codec = NoBody

\* a body of content type ct arrives
Receive(raw, ct) ==
    /\ codec.stage = "none"
    /\ codec' = [NoBody EXCEPT !.stage = "received", !.raw = raw, !.ct = ct]

\* the recorder stores it: snapshot.ParseBody
Parse ==
    /\ codec.stage = "received"
    /\ codec' = [codec EXCEPT !.stage = "parsed", !.parsed = ParseBody(codec.raw, codec.ct)]

\* the replayer sends it: snapshot.DecodeBody
Decode ==
    /\ codec.stage = "parsed"
    /\ codec' = [codec EXCEPT !.stage = "decoded", !.decoded = DecodeBody(codec.parsed)]

BodyNext ==
    \/ codec.stage = "none" /\ \E raw \in Bodies, ct \in ContentTypes : Receive(raw, ct)
    \/ Parse
    \/ Decode

\* ================================================================
\* The differ (package db): ComputeDiff, diffTable, indexByID, rowsEqual
\* ================================================================

\* ---- values, rows and table states
IntV(n) == [ty |-> "int", n |-> n]
StrV(s) == [ty |-> "str", s |-> s]

\* fmt.Sprintf("%v", v): an integer in decimal, a string as it is
Sprintv(v) == IF v.ty = "int" THEN Decimal(v.n) ELSE v.s

\* json.Marshal of a value: an integer in decimal, a string in quotes
MarshalValue(v) == IF v.ty = "int" THEN Decimal(v.n) ELSE <<"\"">> \o v.s \o <<"\"">>

\* a row with columns id and a, a row without a, rows without id
RowIA(id, a) == [c \in {"id", "a"} |-> IF c = "id" THEN id ELSE a]
RowI(id) == [c \in {"id"} |-> id]
RowA(a) == [c \in {"a"} |-> a]

TableRows ==
    {RowIA(IntV(1), StrV(<<"x">>)), RowIA(IntV(1), StrV(<<"y">>)),
     RowIA(IntV(2), StrV(<<"x">>)), RowIA(StrV(<<"1">>), StrV(<<"x">>)),
     RowI(IntV(1)), RowA(StrV(<<"x">>)), RowA(IntV(1))}

RowLists == UNION {[1..n -> TableRows] : n \in 0..MaxRows}

TableName == "users"
\* a DB state: the table with its rows in scan order, or no table at all
DBStates == {[t \in {} |-> <<>>]} \cup {[t \in {TableName} |-> rows] : rows \in RowLists}

\* ---- the differ
\* indexByID: nil (ok = FALSE) when a row has no "id", else the map from
\* the printed id to the last row that carries it
indexByID(rows) ==
    IF \E i \in 1..Len(rows) : "id" \notin DOMAIN rows[i]
    THEN [ok |-> FALSE, idx |-> [k \in {} |-> 0]]
    ELSE LET keys == {Sprintv(rows[i]["id"]) : i \in 1..Len(rows)}
             lastOf(k) == CHOOSE i \in 1..Len(rows) :
                             /\ Sprintv(rows[i]["id"]) = k
                             /\ \A j \in (i + 1)..Len(rows) : Sprintv(rows[j]["id"]) # k
         IN  [ok |-> TRUE, idx |-> [k \in keys |-> rows[lastOf(k)]]]

\* an equality that looks at the number of columns only
rowsEqualLenOnly(a, b) == Cardinality(DOMAIN a) = Cardinality(DOMAIN b)

rowsEqual(a, b) ==
    /\ Cardinality(DOMAIN a) = Cardinality(DOMAIN b)
    /\ \A k \in DOMAIN a : k \in DOMAIN b /\ Sprintv(a[k]) = Sprintv(b[k])

\* hashRow: SHA-256 of json.Marshal(row), taken to be as good as the
\* document itself: the columns in sorted order, each with its value
hashRow(row) == {<<k, MarshalValue(row[k])>> : k \in DOMAIN row}

\* the rows a hash map holds: for each hash the last row that has it
ByHash(rows) ==
    LET hashes == {hashRow(rows[i]) : i \in 1..Len(rows)}
        lastOf(h) == CHOOSE i \in 1..Len(rows) :
                        /\ hashRow(rows[i]) = h
                        /\ \A j \in (i + 1)..Len(rows) : hashRow(rows[j]) # h
    IN  [h \in hashes |-> rows[lastOf(h)]]

\* a first loop that reports every id found on both sides
ModifiedByIDUnchecked(b, a) ==
    {[before |-> b[k], after |-> a[k]] : k \in DOMAIN b \cap DOMAIN a}

\* the first loop of the match by id: Modified
ModifiedByID(b, a) ==
    {[before |-> b[k], after |-> a[k]] :
        k \in {x \in DOMAIN b \cap DOMAIN a : ~rowsEqual(b[x], a[x])}}

\* the first loop of the match by id: Removed
RemovedByID(b, a) == {b[k] : k \in DOMAIN b \ DOMAIN a}

\* a second loop that ranges over the wrong map
AddedByIDWrongMap(b, a) == {b[k] : k \in DOMAIN b \ DOMAIN a}

\* the second loop of the match by id: Added
AddedByID(b, a) == {a[k] : k \in DOMAIN a \ DOMAIN b}

\* diffTable: Added, Removed and Modified are appended to in the order a
\* map is ranged over, which no caller may rely on: sets stand for them
diffTable(before, after) ==
    LET beforeByID == indexByID(before)
        afterByID == indexByID(after)
        beforeByHash == ByHash(before)
        afterByHash == ByHash(after)
    IN  IF beforeByID.ok /\ afterByID.ok
        THEN [added |-> AddedByID(beforeByID.idx, afterByID.idx),
              removed |-> RemovedByID(beforeByID.idx, afterByID.idx),
              modified |-> ModifiedByID(beforeByID.idx, afterByID.idx)]
        ELSE [added |-> {afterByHash[h] : h \in DOMAIN afterByHash \ DOMAIN beforeByHash},
              removed |-> {beforeByHash[h] : h \in DOMAIN beforeByHash \ DOMAIN afterByHash},
              modified |-> {}]

\* before[table] for a table the state may lack: a nil slice
RowsOf(state, table) == IF table \in DOMAIN state THEN state[table] ELSE <<>>

ComputeDiff(before, after) ==
    [table \in DOMAIN before \cup DOMAIN after |->
        diffTable(RowsOf(before, table), RowsOf(after, table))]

NoDiff == [stage |-> "none", before |-> [t \in {} |-> <<>>], after |-> [t \in {} |-> <<>>],
           diff |-> [t \in {} |-> 0]]

DiffInit == differ = NoDiff

\* the two scans of the database around a request
ScanStates(before, after) ==
    /\ differ.stage = "none"
    /\ differ' = [NoDiff EXCEPT !.stage = "scanned", !.before = before, !.after = after]

\* buildSnapshot computes db_diff
Compute ==
    /\ differ.stage = "scanned"
    /\ differ' = [differ EXCEPT !.stage = "diffed",
                                !.diff = ComputeDiff(differ.before, differ.after)]

DiffNext ==
    \/ differ.stage = "none" /\ \E before, after \in DBStates : ScanStates(before, after)
    \/ Compute

\* ======================================================================
\* Field redaction (internal/recorder/recorder.go, redactSnapshot): the
\* snapshot that buildSnapshot has put together is redacted in place,
\* before it is saved.
\* ======================================================================

redactedValue == "[REDACTED]"

\* a body as ParseBody and json.Unmarshal leave it: nil, a string, a
\* map[string]any or a []any
BNil == [t |-> "nil"]
BStr(s) == [t |-> "string", s |-> s]
BMap(m) == [t |-> "map", m |-> m]
BList(a) == [t |-> "list", a |-> a]

\* a map with one key, a map with two keys
One(k, v) == [x \in {k} |-> v]
Two(k1, v1, k2, v2) == [x \in {k1, k2} |-> IF x = k1 THEN v1 ELSE v2]

Secret == BMap(One("secret", BStr("s1")))

\* the bodies recorded: none, text, a field at the top, in a nested map,
\* under a map that has the field's name, in a list of maps, and a list at
\* the top
RedactBodies ==
    {BNil,
     BStr("text"),
     Secret,
     BMap(Two("user", Secret, "secret", BStr("s2"))),
     BMap(One("secret", Secret)),
     BMap(One("items", BList(<<Secret>>))),
     BList(<<Secret>>)}

NoHeaders == [x \in {} |-> ""]
RedactHeaders == {NoHeaders, One("Authorization", "tok"), One("secret", "hs")}

\* snapshot.Request and snapshot.Response as far as redaction reads them
HTTPMessage(headers, payload) == [headers |-> headers, body |-> payload]

\* snapshot.OutgoingRequest: Response is a pointer, here zero or one response
Outgoing(headers, payload, response) ==
    [headers |-> headers, body |-> payload, response |-> response]

OutgoingLists ==
    {<<>>,
     <<Outgoing(One("Authorization", "tok"), Secret, <<>>)>>,
     <<Outgoing(NoHeaders, BNil, <<HTTPMessage(NoHeaders, Secret)>>)>>,
     <<Outgoing(NoHeaders, BMap(One("user", Secret)),
                <<HTTPMessage(One("secret", "hs"), BMap(One("items", BList(<<Secret>>))))>>)>>}

RedactSnapshots ==
    {[request |-> HTTPMessage(h, b),
      response |-> HTTPMessage(NoHeaders, rb),
      outgoing |-> o] :
        h \in RedactHeaders, b \in RedactBodies, rb \in {BNil, Secret}, o \in OutgoingLists}

\* a configured field, held as the parts strings.Split(field, ".") gives
FieldPaths ==
    {<<"secret">>,
     <<"*", "secret">>,
     <<"*", "user">>,
     <<"*", "body", "user", "secret">>,
     <<"request", "headers", "Authorization">>,
     <<"request", "body", "user", "secret">>,
     <<"request", "body", "user">>,
     <<"request", "secret">>,
     <<"response", "body", "secret">>,
     <<"response", "headers">>}

FieldLists == UNION {[1..n -> FieldPaths] : n \in 0..MaxFields}

RedactHeaderFlipped(headers, name) ==
    [x \in DOMAIN headers |->
        IF x = name THEN (IF headers[x] = redactedValue THEN "" ELSE redactedValue)
        ELSE headers[x]]

\* the header of that name is replaced if it is there
RedactHeader(headers, name) ==
    [x \in DOMAIN headers |-> IF x = name THEN redactedValue ELSE headers[x]]

RECURSIVE redactInBody(_, _)
redactInBody(payload, path) ==
    IF payload.t = "nil" \/ Len(path) = 0 THEN payload
    ELSE IF payload.t # "map" THEN payload
    ELSE IF Len(path) = 1 THEN
        BMap([x \in DOMAIN payload.m |->
                 IF x = path[1] THEN BStr(redactedValue) ELSE payload.m[x]])
    ELSE
        BMap([x \in DOMAIN payload.m |->
                 IF x = path[1] THEN redactInBody(payload.m[x], Tail(path))
                 ELSE payload.m[x]])

\* the value under fieldName is replaced first; then every value that is
\* a map[string]any is descended into
RECURSIVE redactFieldRecursive(_, _)
redactFieldRecursive(payload, fieldName) ==
    IF payload.t = "nil" THEN payload
    ELSE IF payload.t # "map" THEN payload
    ELSE
        LET set == [x \in DOMAIN payload.m |->
                       IF x = fieldName THEN BStr(redactedValue) ELSE payload.m[x]]
        IN  BMap([x \in DOMAIN set |->
                     IF set[x].t = "map" THEN redactFieldRecursive(set[x], fieldName)
                     ELSE set[x]])

redactInRequest(request, path) ==
    IF Len(path) = 0 THEN request
    ELSE IF path[1] = "headers" THEN
        IF Len(path) = 2 THEN [request EXCEPT !.headers = RedactHeader(@, path[2])]
        ELSE request
    ELSE IF path[1] = "body" THEN
        IF Len(path) >= 2 THEN [request EXCEPT !.body = redactInBody(@, Tail(path))]
        ELSE request
    ELSE [request EXCEPT !.body = redactFieldRecursive(@, path[1]),
                         !.headers = RedactHeader(@, path[1])]

redactInResponse(response, path) ==
    IF Len(path) = 0 THEN response
    ELSE IF path[1] = "headers" THEN
        IF Len(path) = 2 THEN [response EXCEPT !.headers = RedactHeader(@, path[2])]
        ELSE response
    ELSE IF path[1] = "body" THEN
        IF Len(path) >= 2 THEN [response EXCEPT !.body = redactInBody(@, Tail(path))]
        ELSE response
    ELSE [response EXCEPT !.body = redactFieldRecursive(@, path[1]),
                          !.headers = RedactHeader(@, path[1])]

\* the wildcard's loop body: the entry's headers and body go through
\* redactInRequest, its response, if it has one, through redactInResponse
redactOutgoing(entry, path) ==
    LET subReq == redactInRequest(HTTPMessage(entry.headers, entry.body), path)
    IN  [headers |-> subReq.headers,
         body |-> subReq.body,
         response |-> [i \in DOMAIN entry.response |-> redactInResponse(entry.response[i], path)]]

\* one turn of redactSnapshot's loop over the fields
redactField(s, parts) ==
    IF Len(parts) < 2 THEN s
    ELSE IF parts[1] = "request" THEN
        [s EXCEPT !.request = redactInRequest(@, Tail(parts))]
    ELSE IF parts[1] = "response" THEN
        [s EXCEPT !.response = redactInResponse(@, Tail(parts))]
    ELSE IF parts[1] = "*" THEN
        [request |-> redactInRequest(s.request, Tail(parts)),
         response |-> redactInResponse(s.response, Tail(parts)),
         outgoing |-> [i \in DOMAIN s.outgoing |-> redactOutgoing(s.outgoing[i], Tail(parts))]]
    ELSE s

RECURSIVE redactSnapshot(_, _)
redactSnapshot(s, fieldList) ==
    IF fieldList = <<>> THEN s
    ELSE redactSnapshot(redactField(s, Head(fieldList)), Tail(fieldList))

NoSnapshot == [request |-> HTTPMessage(NoHeaders, BNil),
               response |-> HTTPMessage(NoHeaders, BNil),
               outgoing |-> <<>>]

NoRedaction == [stage |-> "none", fieldList |-> <<>>, built |-> NoSnapshot,
                first |-> NoSnapshot, second |-> NoSnapshot]

RedactInit == redaction = NoRedaction

\* buildSnapshot has put the snapshot together; the fields are the
\* configuration's redact_fields
BuildRedactable(s, fieldList) ==
    /\ redaction.stage = "none"
    /\ redaction' = [NoRedaction EXCEPT !.stage = "built", !.fieldList = fieldList, !.built = s]

\* buildSnapshot's call of redactSnapshot
Redact ==
    /\ redaction.stage = "built"
    /\ redaction' = [redaction EXCEPT !.stage = "redacted",
                        !.first = redactSnapshot(redaction.built, redaction.fieldList)]

\* the same fields applied to the redacted snapshot once more
RedactAgain ==
    /\ redaction.stage = "redacted"
    /\ redaction' = [redaction EXCEPT !.stage = "again",
                        !.second = redactSnapshot(redaction.first, redaction.fieldList)]

RedactNext ==
    \/ redaction.stage = "none" /\ \E s \in RedactSnapshots, fieldList \in FieldLists :
          BuildRedactable(s, fieldList)
    \/ Redact
    \/ RedactAgain

\* ======================================================================
\* Restoring the database (internal/db/snapshotter.go, RestoreAll): foreign
\* key checks are switched off, every table of the state is restored, and
\* the deferred function switches the checks back on. The statements of one
\* RestoreAll run one after the other on the session that database/sql
\* keeps idle between them, so the checks are one flag of that session.
\* ======================================================================

RestoreTables == {"users", "orders"}

\* a row without columns
EmptyRow == [c \in {} |-> IntV(0)]

\* the rows a table is restored to: none, one row, or one row without columns
RestoreRows == {<<>>, <<RowIA(IntV(1), StrV(<<"x">>))>>, <<EmptyRow>>}

\* the states to restore: any of the tables, each with its rows
RestoreStates == UNION {[ts -> RestoreRows] : ts \in SUBSET RestoreTables}

EmptyDB == [table \in RestoreTables |-> <<>>]

\* what RestoreTable comes to: every statement worked, the DELETE failed,
\* or the DELETE worked and an INSERT failed
RestoreOutcomes(rows) ==
    IF \A i \in DOMAIN rows : DOMAIN rows[i] = {} THEN {"ok", "delete"}
    ELSE {"ok", "delete", "insert"}

\* the rows RestoreTable inserts: a row without columns is passed over
InsertedRows(rows) ==
    LET RECURSIVE from(_)
        from(i) == IF i > Len(rows) THEN <<>>
                   ELSE IF DOMAIN rows[i] = {} THEN from(i + 1)
                   ELSE <<rows[i]>> \o from(i + 1)
    IN  from(1)

RestoreTableNoDelete(before, rows, outcome) ==
    IF outcome = "delete" THEN before
    ELSE IF outcome = "insert" THEN before \o SubSeq(InsertedRows(rows), 1, Len(InsertedRows(rows)) - 1)
    ELSE before \o InsertedRows(rows)

\* the table after RestoreTable: untouched if the DELETE failed, empty of
\* the rows from the failing INSERT on, else the rows inserted
RestoreTable(before, rows, outcome) ==
    IF outcome = "delete" THEN before
    ELSE IF outcome = "insert" THEN SubSeq(InsertedRows(rows), 1, Len(InsertedRows(rows)) - 1)
    ELSE InsertedRows(rows)

\* what rows.Scan hands over for a stored value: text comes as a string or,
\* with some drivers, as a []byte
DriverValue(v, asBytes) ==
    IF v.ty = "str" /\ asBytes THEN [ty |-> "bytes", s |-> v.s] ELSE v

\* SnapshotTable's conversion of a []byte to a string
BytesToString(v) == IF v.ty = "bytes" THEN StrV(v.s) ELSE v

\* SELECT * FROM the table, row by row and column by column
SnapshotTable(stored, asBytes) ==
    [i \in DOMAIN stored |->
        [c \in DOMAIN stored[i] |-> BytesToString(DriverValue(stored[i][c], asBytes))]]

NoScan == [ok |-> FALSE, state |-> [table \in {} |-> <<>>]]

\* SnapshotAll over the tables of Tables(): a table that cannot be queried
\* makes the whole snapshot fail
SnapshotAll(tables, db, asBytes) ==
    IF \E table \in tables : table \notin DOMAIN db THEN NoScan
    ELSE [ok |-> TRUE, state |-> [table \in tables |-> SnapshotTable(db[table], asBytes)]]

disableFKChecks(fk, ok) == IF ok THEN FALSE ELSE fk

enableFKChecks(fk, ok) == IF ok THEN TRUE ELSE fk

\* where RestoreAll goes after a RestoreTable: an error returns, the end of
\* the loop returns, and both returns run the deferred function first
AfterTableNoDefer(outcome, rest) ==
    IF outcome # "ok" THEN "returned" ELSE IF rest = {} THEN "deferred" ELSE "loop"

AfterTable(outcome, rest) ==
    IF outcome # "ok" \/ rest = {} THEN "deferred" ELSE "loop"

NoRestore == [pc |-> "idle", fk |-> TRUE, db |-> EmptyDB, dbAtCall |-> EmptyDB,
              state |-> [table \in {} |-> <<>>], todo |-> {}, log |-> <<>>, calls |-> 0,
              scanned |-> FALSE, scan |-> NoScan]

RestoreInit == restore = NoRestore

\* RestoreAll(state) is called
RestoreAllCall(state) ==
    /\ restore.pc = "idle"
    /\ restore.calls < MaxRestores
    /\ restore' = [restore EXCEPT !.pc = "disable", !.state = state, !.todo = DOMAIN state,
                                  !.dbAtCall = restore.db, !.log = <<>>, !.calls = @ + 1,
                                  !.scanned = FALSE, !.scan = NoScan]

\* b.disableFKChecks(): an error returns before the defer statement
DisableFK(ok) ==
    /\ restore.pc = "disable"
    /\ restore' = [restore EXCEPT
          !.fk = disableFKChecks(@, ok),
          !.log = Append(@, [e |-> "disable", ok |-> ok]),
          !.pc = IF ~ok THEN "returned" ELSE IF restore.todo = {} THEN "deferred" ELSE "loop"]

\* one turn of the loop over the state, in the order the map gives
RestoreTableStep(table, outcome) ==
    /\ restore.pc = "loop"
    /\ table \in restore.todo
    /\ outcome \in RestoreOutcomes(restore.state[table])
    /\ restore' = [restore EXCEPT
          !.db[table] = RestoreTable(@, restore.state[table], outcome),
          !.todo = @ \ {table},
          !.log = Append(@, [e |-> "table", table |-> table, fk |-> restore.fk,
                             modified |-> outcome # "delete", ok |-> outcome = "ok"]),
          !.pc = AfterTable(outcome, restore.todo \ {table})]

\* the deferred function: b.enableFKChecks(), its error only printed
EnableFK(ok) ==
    /\ restore.pc = "deferred"
    /\ restore' = [restore EXCEPT
          !.fk = enableFKChecks(@, ok),
          !.log = Append(@, [e |-> "enable", ok |-> ok]),
          !.pc = "returned"]

\* the caller has the result
RestoreAllReturn ==
    /\ restore.pc = "returned"
    /\ restore' = [restore EXCEPT !.pc = "idle"]

\* the SnapshotAll that follows a RestoreAll, over the configured tables
SnapshotAllAfterRestore(asBytes) ==
    /\ restore.pc = "idle"
    /\ restore.calls > 0
    /\ ~restore.scanned
    /\ restore' = [restore EXCEPT !.scanned = TRUE,
                                  !.scan = SnapshotAll(RestoreTables, restore.db, asBytes)]

RestoreNext ==
    \/ restore.pc = "idle" /\ \E state \in RestoreStates : RestoreAllCall(state)
    \/ \E asBytes \in BOOLEAN : SnapshotAllAfterRestore(asBytes)
    \/ \E ok \in BOOLEAN : DisableFK(ok)
    \/ restore.pc = "loop" /\ \E table \in restore.todo, outcome \in {"ok", "delete", "insert"} :
          RestoreTableStep(table, outcome)
    \/ \E ok \in BOOLEAN : EnableFK(ok)
    \/ RestoreAllReturn

\* ======================================================================
\* The database around one recorded call (internal/recorder/recorder.go,
\* ServeHTTP steps 2, 4, 6 and 8): SnapshotAll before the call is proxied,
\* the service at work on the database, SnapshotAll after, and the save.
\* ======================================================================

\* the databases at the start: any of the tables, each with no row or one
ScanDatabases == UNION {[ts -> {<<>>, <<RowI(IntV(1))>>}] : ts \in SUBSET RestoreTables}

\* database.tables of the configuration; none means discovery
ConfiguredTables == SUBSET RestoreTables

\* the table names the catalogue query returns
discoverTables(db) == DOMAIN db

Tables(configuredTables, db) ==
    IF configuredTables # {} THEN configuredTables ELSE discoverTables(db)

\* what the service does to the database while it handles the call
ServiceChanges ==
    {[kind |-> "none", table |-> ""]}
        \cup {[kind |-> k, table |-> t] : k \in {"create", "drop", "insert"}, t \in RestoreTables}

ApplyChange(db, change) ==
    IF change.kind = "create" /\ change.table \notin DOMAIN db THEN
        [t \in DOMAIN db \cup {change.table} |-> IF t = change.table THEN <<>> ELSE db[t]]
    ELSE IF change.kind = "drop" /\ change.table \in DOMAIN db THEN
        [t \in DOMAIN db \ {change.table} |-> db[t]]
    ELSE IF change.kind = "insert" /\ change.table \in DOMAIN db THEN
        [db EXCEPT ![change.table] = Append(@, RowI(IntV(Len(@) + 1)))]
    ELSE db

NoDBScan == [pc |-> "none", configuredTables |-> {}, db |-> [t \in {} |-> <<>>],
             missing |-> {}, dbBefore |-> NoScan, change |-> "none",
             dbAfter |-> NoScan, status |-> 0, stored |-> <<>>]

ScanInit == dbscan = NoDBScan

\* the recorder is started with its configuration against a database
StartRecorder(configuredTables, db) ==
    /\ dbscan.pc = "none"
    /\ dbscan' = [NoDBScan EXCEPT !.pc = "before", !.configuredTables = configuredTables,
                                  !.db = db]

\* ServeHTTP step 2: an error answers 500 and returns
ScanBefore(asBytes) ==
    /\ dbscan.pc = "before"
    /\ LET tables == Tables(dbscan.configuredTables, dbscan.db)
           scanned == SnapshotAll(tables, dbscan.db, asBytes)
       IN  dbscan' = [dbscan EXCEPT
              !.missing = tables \ DOMAIN dbscan.db,
              !.dbBefore = scanned,
              !.status = IF scanned.ok THEN 0 ELSE 500,
              !.pc = IF scanned.ok THEN "proxy" ELSE "done"]

\* ServeHTTP step 4: the call is proxied and the service works on the database
ServiceHandles(change) ==
    /\ dbscan.pc = "proxy"
    /\ dbscan' = [dbscan EXCEPT !.db = ApplyChange(@, change), !.change = change.kind,
                                !.status = 200, !.pc = "after"]

\* ServeHTTP steps 6 to 8: an error returns without a snapshot, else the
\* snapshot is built from both states and saved
ScanAfterAndSave(asBytes) ==
    /\ dbscan.pc = "after"
    /\ LET scanned == SnapshotAll(Tables(dbscan.configuredTables, dbscan.db), dbscan.db, asBytes)
       IN  dbscan' = [dbscan EXCEPT
              !.dbAfter = scanned,
              !.stored = IF scanned.ok
                         THEN Append(@, [db_state_before |-> dbscan.dbBefore.state,
                                         db_state_after |-> scanned.state])
                         ELSE @,
              !.pc = "done"]

ScanNext ==
    \/ dbscan.pc = "none" /\ \E configuredTables \in ConfiguredTables, db \in ScanDatabases :
          StartRecorder(configuredTables, db)
    \/ \E asBytes \in BOOLEAN : ScanBefore(asBytes)
    \/ dbscan.pc = "proxy" /\ \E change \in ServiceChanges : ServiceHandles(change)
    \/ \E asBytes \in BOOLEAN : ScanAfterAndSave(asBytes)

\* ======================================================================
\* One outgoing call in OutgoingProxy.ServeHTTP, statement by statement
\* (internal/recorder/outgoing.go): the method check, the request body, the
\* forwarding, the response body, the append to the buffer and the write
\* back to the service; the recorder drains the buffer at any time.
\* ======================================================================

MethodConnect == "CONNECT"

ProxyMethods == {"GET", MethodConnect}

\* if r.Method == http.MethodConnect
RejectsMethodNever(method) == FALSE

RejectsMethod(method) == method = MethodConnect

\* the statement after each statement that worked
AfterStepWriteFirst(at) ==
    CASE at = "method"   -> "body"
      [] at = "body"     -> "forward"
      [] at = "forward"  -> "response"
      [] at = "response" -> "write"
      [] at = "write"    -> "append"
      [] at = "append"   -> "returned"

AfterStep(at) ==
    CASE at = "method"   -> "body"
      [] at = "body"     -> "forward"
      [] at = "forward"  -> "response"
      [] at = "response" -> "append"
      [] at = "append"   -> "write"
      [] at = "write"    -> "returned"

\* what is known of one outgoing call
NoHandled == [method |-> "", at |-> "none", code |-> 0, bodyRead |-> FALSE,
              sentUpstream |-> FALSE, upstreamFailed |-> FALSE, written |-> FALSE]

NoProxy == [calls |-> <<>>, drained |-> {}, handled |-> <<>>]

ProxyInit == oproxy = NoProxy

\* the call the handler is at, if any
Current == Len(oproxy.handled)

Handling(at) == Current > 0 /\ oproxy.handled[Current].at = at

\* http.Error(w, ..., code) and return
ProxyError(code) == [oproxy.handled[Current] EXCEPT !.code = code, !.at = "returned"]

\* the service sends a call through the proxy
ProxyReceive(method) ==
    /\ Current < MaxProxied
    /\ Current > 0 => oproxy.handled[Current].at = "returned"
    /\ oproxy' = [oproxy EXCEPT !.handled = Append(@, [NoHandled EXCEPT !.method = method,
                                                                        !.at = "method"])]

\* CONNECT: 405 and return
CheckMethod ==
    /\ Handling("method")
    /\ oproxy' = [oproxy EXCEPT !.handled[Current] =
          IF RejectsMethod(@.method) THEN ProxyError(405)
          ELSE [@ EXCEPT !.at = AfterStep("method")]]

\* io.ReadAll(r.Body): an error answers 502
ReadRequestBody(ok) ==
    /\ Handling("body")
    /\ oproxy' = [oproxy EXCEPT !.handled[Current] =
          IF ok THEN [@ EXCEPT !.bodyRead = TRUE, !.at = AfterStep("body")]
          ELSE ProxyError(502)]

\* http.NewRequest and p.client.Do: an error of either answers 502; the
\* request may have reached the upstream when Do fails
ForwardUpstream(outcome, reached) ==
    /\ Handling("forward")
    /\ outcome = "newrequest" => ~reached
    /\ outcome = "ok" => reached
    /\ oproxy' = [oproxy EXCEPT !.handled[Current] =
          IF outcome = "ok" THEN [@ EXCEPT !.sentUpstream = TRUE, !.at = AfterStep("forward")]
          ELSE [ProxyError(502) EXCEPT !.sentUpstream = reached,
                                       !.upstreamFailed = outcome = "do"]]

\* io.ReadAll(resp.Body): an error answers 502
ReadResponseBody(ok) ==
    /\ Handling("response")
    /\ oproxy' = [oproxy EXCEPT !.handled[Current] =
          IF ok THEN [@ EXCEPT !.at = AfterStep("response")]
          ELSE [ProxyError(502) EXCEPT !.upstreamFailed = TRUE]]

\* p.calls = append(p.calls, outgoing), under the mutex
AppendCaptured ==
    /\ Handling("append")
    /\ oproxy' = [oproxy EXCEPT !.calls = AppendCall(@, Current),
                                !.handled[Current].at = AfterStep("append")]

\* the upstream's headers, status and body are written to the service
WriteBack ==
    /\ Handling("write")
    /\ oproxy' = [oproxy EXCEPT !.handled[Current] =
          [@ EXCEPT !.written = TRUE, !.code = 200, !.at = AfterStep("write")]]

\* OutgoingProxy.Drain, called by the recorder
DrainBuffer ==
    /\ oproxy.calls # <<>>
    /\ oproxy' = [oproxy EXCEPT !.drained = @ \cup Range(DrainReturn(oproxy.calls)),
                                !.calls = AfterDrain(@)]

ProxyNext ==
    \/ \E method \in ProxyMethods : ProxyReceive(method)
    \/ CheckMethod
    \/ \E ok \in BOOLEAN : ReadRequestBody(ok)
    \/ \E outcome \in {"ok", "newrequest", "do"}, reached \in BOOLEAN : ForwardUpstream(outcome, reached)
    \/ \E ok \in BOOLEAN : ReadResponseBody(ok)
    \/ AppendCaptured
    \/ WriteBack
    \/ DrainBuffer

\* ======================================================================
\* A managed service and its Stop (internal/replayer, startService and
\* managedService.Stop): the context is cancelled, a goroutine waits for
\* the process, and Stop returns when the goroutine is done or after the
\* timer, killing the process then. The clock counts seconds; it moves
\* only while Stop waits for a process that is still running.
\* ======================================================================

\* time.After(5 * time.Second)
StopTimeoutSeconds == 5

TimerFiresNever(elapsed) == FALSE

TimerFires(elapsed) == elapsed >= StopTimeoutSeconds

NoManaged == [stage |-> "none", handle |-> FALSE, proc |-> "none", stop |-> "idle",
              cancelled |-> FALSE, doneClosed |-> FALSE, killed |-> FALSE,
              elapsed |-> 0, exitedAtCall |-> FALSE, services |-> 0]

StopInit == msvc = NoManaged

\* startService: no command gives a nil handle; cmd.Start may fail, which
\* gives a nil handle too; else the process runs
StartManaged(command, started) ==
    /\ msvc.stage = "none"
    /\ msvc.services < MaxServices
    /\ msvc' = [NoManaged EXCEPT !.stage = "started",
                                 !.handle = command /\ started,
                                 !.proc = IF command /\ started THEN "running" ELSE "none",
                                 !.services = msvc.services + 1]

\* the process ends: by itself, or after the signal of the cancelled
\* context or of Kill
ProcessExits ==
    /\ msvc.proc = "running"
    /\ msvc' = [msvc EXCEPT !.proc = "exited"]

\* svc.Stop() is called; on a nil handle it returns
StopCall ==
    /\ msvc.stage = "started"
    /\ msvc.stop = "idle"
    /\ msvc' = [msvc EXCEPT !.stop = IF msvc.handle THEN "called" ELSE "returned",
                            !.exitedAtCall = msvc.proc = "exited"]

\* s.cancel(), and the goroutine with s.cmd.Wait() is started
CancelProcess ==
    /\ msvc.stop = "called"
    /\ msvc' = [msvc EXCEPT !.cancelled = TRUE, !.stop = "select"]

\* the goroutine: s.cmd.Wait() returns once the process has ended; close(done)
WaitReturns ==
    /\ msvc.stop \in {"select", "returned"}
    /\ msvc.cancelled
    /\ msvc.proc = "exited"
    /\ ~msvc.doneClosed
    /\ msvc' = [msvc EXCEPT !.doneClosed = TRUE]

\* a second passes while Stop waits in the select
SecondPasses ==
    /\ msvc.stop = "select"
    /\ msvc.proc = "running"
    /\ ~TimerFires(msvc.elapsed)
    /\ msvc' = [msvc EXCEPT !.elapsed = @ + 1]

\* case <-done
SelectDone ==
    /\ msvc.stop = "select"
    /\ msvc.doneClosed
    /\ msvc' = [msvc EXCEPT !.stop = "returned"]

\* case <-time.After(...): s.cmd.Process.Kill()
SelectTimeout ==
    /\ msvc.stop = "select"
    /\ TimerFires(msvc.elapsed)
    /\ msvc' = [msvc EXCEPT !.killed = TRUE, !.stop = "returned"]

\* the next replay starts from no service
NextManaged ==
    /\ msvc.stop = "returned"
    /\ msvc.services < MaxServices
    /\ msvc' = [NoManaged EXCEPT !.services = msvc.services]

\* the steps of Stop, of its goroutine and of the clock
StopProgress == CancelProcess \/ WaitReturns \/ SecondPasses \/ SelectDone \/ SelectTimeout

StopNext ==
    \/ \E command \in BOOLEAN, started \in BOOLEAN : StartManaged(command, started)
    \/ ProcessExits
    \/ StopCall
    \/ StopProgress
    \/ NextManaged

Init == RecInit /\ DrainInit /\ RepInit /\ MidInit /\ MockInit /\ StoreInit
        /\ StopInit
        /\ ProxyInit
        /\ ScanInit
        /\ RestoreInit
        /\ RedactInit
        /\ DiffInit
        /\ BodyInit

\* recording with outgoing calls: incoming calls are handled concurrently
\* while the service sends outgoing calls through the capture proxy
Next == (HandlerNext \/ OutgoingNext) /\ UNCHANGED <<drnVars, repVars, midVars, mockVars, storeVars, bodyVars, diffVars, redactVars, restoreVars, scanVars, proxyVars, stopVars>>

Spec == Init /\ [][Next]_vars

\* recording with failures: the handler's error paths
NextFaults == FaultyHandlerNext /\ UNCHANGED <<drnVars, repVars, midVars, mockVars, storeVars, bodyVars, diffVars, redactVars, restoreVars, scanVars, proxyVars, stopVars>>

SpecFaults == Init /\ [][NextFaults]_vars

\* the capture buffer: appends and drains by concurrent threads
NextDrain == DrainNext /\ UNCHANGED <<recVars, repVars, midVars, mockVars, storeVars, bodyVars, diffVars, redactVars, restoreVars, scanVars, proxyVars, stopVars>>

SpecDrain == Init /\ [][NextDrain]_vars

\* replay: ReplayAll over the snapshots
NextReplay == ReplayNext /\ UNCHANGED <<recVars, drnVars, midVars, mockVars, storeVars, bodyVars, diffVars, redactVars, restoreVars, scanVars, proxyVars, stopVars>>

\* the middleware stack under concurrent requests
NextMiddleware ==
    MiddlewareNext /\ UNCHANGED <<recVars, drnVars, repVars, mockVars, storeVars, bodyVars, diffVars, redactVars, restoreVars, scanVars, proxyVars, stopVars>>

SpecMiddleware == Init /\ [][NextMiddleware]_vars

\* the mock server answering inbound calls
NextMock == MockNext /\ UNCHANGED <<recVars, drnVars, repVars, midVars, storeVars, bodyVars, diffVars, redactVars, restoreVars, scanVars, proxyVars, stopVars>>

SpecMock == Init /\ [][NextMock]_vars

SpecReplay == Init /\ [][NextReplay]_vars

\* the snapshot store: concurrent saves, updates and replays on one directory
NextStore ==
    StoreNext /\ UNCHANGED <<recVars, drnVars, repVars, midVars, mockVars, bodyVars, diffVars, redactVars, restoreVars, scanVars, proxyVars, stopVars>>

SpecStore == Init /\ [][NextStore]_vars

\* the body codec: a body is received, parsed and decoded
NextBody ==
    BodyNext /\ UNCHANGED <<recVars, drnVars, repVars, midVars, mockVars, storeVars, diffVars, redactVars, restoreVars, scanVars, proxyVars, stopVars>>

SpecBody == Init /\ [][NextBody]_vars

\* the differ: two DB states are scanned and their diff computed
NextDiff ==
    DiffNext /\ UNCHANGED <<recVars, drnVars, repVars, midVars, mockVars, storeVars, bodyVars, redactVars, restoreVars, scanVars, proxyVars, stopVars>>

SpecDiff == Init /\ [][NextDiff]_vars

\* field redaction: a built snapshot is redacted, and redacted once more
NextRedact ==
    RedactNext /\ UNCHANGED <<recVars, drnVars, repVars, midVars, mockVars, storeVars, bodyVars, diffVars, restoreVars, scanVars, proxyVars, stopVars>>

SpecRedact == Init /\ [][NextRedact]_vars

\* restoring the database: RestoreAll, step by step
NextRestore ==
    RestoreNext /\ UNCHANGED <<recVars, drnVars, repVars, midVars, mockVars, storeVars, bodyVars, diffVars, redactVars, scanVars, proxyVars, stopVars>>

SpecRestore == Init /\ [][NextRestore]_vars

\* the database around one recorded call
NextScan ==
    ScanNext /\ UNCHANGED <<recVars, drnVars, repVars, midVars, mockVars, storeVars, bodyVars, diffVars, redactVars, restoreVars, proxyVars, stopVars>>

SpecScan == Init /\ [][NextScan]_vars

\* the outgoing proxy, one call after the other, statement by statement
NextProxy ==
    ProxyNext /\ UNCHANGED <<recVars, drnVars, repVars, midVars, mockVars, storeVars, bodyVars, diffVars, redactVars, restoreVars, scanVars, stopVars>>

SpecProxy == Init /\ [][NextProxy]_vars

\* a managed service is started and stopped
NextStop ==
    StopNext /\ UNCHANGED <<recVars, drnVars, repVars, midVars, mockVars, storeVars, bodyVars, diffVars, redactVars, restoreVars, scanVars, proxyVars>>

\* Stop, its goroutine and the clock keep going
SpecStop == Init /\ [][NextStop]_vars /\ WF_vars(StopProgress /\ UNCHANGED <<recVars, drnVars, repVars, midVars, mockVars, storeVars, bodyVars, diffVars, redactVars, restoreVars, scanVars, proxyVars>>)

\* ================================================================
\* Claims
\* ================================================================

AllDone == \A i \in Calls : pc[i] = "done"

NoOverlap == \A i \in Calls : overlap[i] = {}

\* the outgoing_requests of the snapshot saved for call i (empty if none)
SnapshotOutgoing(i) ==
    IF saved[i] = <<>> THEN {} ELSE Range(saved[i][1].outgoing_requests)

\* C1: the handler of every incoming call performs db_before, drain-stale,
\* forward, drain-observed, db_after, save in this order, each at most once,
\* a later step only after every earlier one, and saves at most one snapshot.
C1_StepOrder ==
    \A i \in Calls :
        /\ IsPrefix(steps[i], StepOrder)
        /\ Len(saved[i]) =< 1
        /\ saved[i] # <<>> => steps[i] = StepOrder

C1_Witness ==
    \E i \in Calls : pc[i] = "done" /\ steps[i] = StepOrder /\ Len(saved[i]) = 1

\* C2: with only one incoming call in flight at a time, every outgoing call
\* the service sends while incoming call i is being forwarded, and whose
\* (upstream) response the service receives before it answers i, is in the
\* outgoing_requests of the snapshot saved for i.
C2_ObservedCallsSaved ==
    NoOverlap =>
        \A i \in Calls, o \in Outs :
            (oc[o].cause = i /\ oc[o].inTime /\ saved[i] # <<>>)
                => o \in SnapshotOutgoing(i)

C2_Witness ==
    /\ AllDone
    /\ NoOverlap
    /\ \E i \in Calls :
         /\ saved[i] # <<>>
         /\ \A o \in Outs : oc[o].cause = i /\ oc[o].inTime
         /\ \A o \in Outs : o \in SnapshotOutgoing(i)

\* C3 as stated: a snapshot's outgoing_requests never contains an outgoing
\* call that the service started strictly before the incoming call arrived
\* or strictly after the incoming call was answered.
C3_OnlyCallsStartedDuring ==
    \A i \in Calls, o \in Outs :
        o \in SnapshotOutgoing(i)
            => (i \in oc[o].startArr /\ i \notin oc[o].startAns)

\* C3 as amended: a snapshot's outgoing_requests contains only outgoing calls
\* that the outgoing proxy captured (appended to the buffer, after reading
\* the upstream response) after the db_before snapshot and before the
\* observed drain, hence before the db_after snapshot, of that incoming call.
C3_OnlyCallsCapturedBetween ==
    \A i \in Calls, o \in Outs :
        o \in SnapshotOutgoing(i)
            => /\ i \in oc[o].appBefore
               /\ o \in Range(drained[i].obs)
               /\ o \notin Range(drained[i].stale)

C3_Witness ==
    \E i \in Calls, o \in Outs :
        /\ o \in SnapshotOutgoing(i)
        /\ i \in oc[o].appBefore
        /\ i \notin oc[o].startArr

\* C4: with two incoming calls in flight at the same time the buffer mixes
\* their outgoing calls: an outgoing call caused by one call can be saved in
\* the other call's snapshot or be discarded by the other call's stale drain
\* (the witness); for an outgoing call answered while its own incoming call
\* was still being forwarded this happens only between calls that were in
\* flight at the same time (the invariant).
C4_MixedOnlyWhenConcurrent ==
    \A i \in Calls, j \in Calls, o \in Outs :
        (/\ i # j
         /\ oc[o].cause = i
         /\ oc[o].inTime
         /\ o \in Range(drained[j].stale) \cup Range(drained[j].obs))
            => j \in overlap[i]

C4_Witness ==
    /\ AllDone
    /\ \E i \in Calls, j \in Calls, o1 \in Outs, o2 \in Outs :
         /\ i # j
         /\ oc[o1].cause = i /\ oc[o1].inTime
         /\ oc[o2].cause = i /\ oc[o2].inTime
         /\ o1 \in Range(drained[j].stale)
         /\ \A k \in Calls : o1 \notin SnapshotOutgoing(k)
         /\ o2 \in SnapshotOutgoing(j)

\* the drains in dlog that returned a, and the drainers that hold a in
\* their local between reading the buffer and returning
LoggedDrainsOf(a) == {k \in 1..Len(dlog) : a \in Range(dlog[k].ret)}

HoldersOf(a) ==
    {d \in Drainers : dr[d].pc \in {"clear", "ret"} /\ a \in Range(dr[d].local)}

Occurrences(seq, x) == Cardinality({k \in 1..Len(seq) : seq[k] = x})

\* C5: under any interleaving of appends and drains every appended call is
\* returned by exactly one drain, the first one that takes the lock after
\* the append: until then it is in the buffer, it is never lost and never
\* returned twice.
C5_EachAppendDrainedOnce ==
    \A a \in Appenders :
        ap[a].pc \in {"unlock", "done"} =>
            /\ Cardinality(LoggedDrainsOf(a)) + Cardinality(HoldersOf(a)) =< 1
            /\ \A k \in LoggedDrainsOf(a) :
                 /\ dlog[k].seq = ap[a].seq + 1
                 /\ Occurrences(dlog[k].ret, a) = 1
                 /\ a \notin Range(dbuf)
            /\ \A d \in HoldersOf(a) : dr[d].lockNo = ap[a].seq + 1
            /\ (LoggedDrainsOf(a) = {} /\ HoldersOf(a) = {}) =>
                 /\ Occurrences(dbuf, a) = 1
                 /\ \A d \in Drainers :
                      dr[d].lockNo > ap[a].seq => dr[d].pc = "read"
                 /\ \A k \in 1..Len(dlog) : dlog[k].seq =< ap[a].seq

C5_Witness ==
    /\ \A a \in Appenders : ap[a].pc = "done" /\ LoggedDrainsOf(a) # {}
    /\ \E a \in Appenders, b \in Appenders : LoggedDrainsOf(a) # LoggedDrainsOf(b)

\* C6: a drain that follows a drain that has returned, with no append in
\* between, returns an empty sequence, whatever the first drain returned.
C6_SecondDrainEmpty ==
    \A k \in 1..Len(dlog) : dlog[k].clean => dlog[k].ret = <<>>

C6_Witness ==
    \E k \in 2..Len(dlog) :
        /\ dlog[k].clean
        /\ dlog[k].ret = <<>>
        /\ dlog[k - 1].ret # <<>>

\* C7: if the db_before snapshot fails, the client receives 500, the call is
\* never forwarded to the service and no snapshot is saved for it.
C7_BeforeFailureIsFatal ==
    \A i \in Calls :
        fail[i] = "db_before"
            => /\ pc[i] = "done"
               /\ client[i].status = 500
               /\ "forward" \notin Range(steps[i])
               /\ svc[i] = NoResp
               /\ saved[i] = <<>>

C7_Witness ==
    /\ AllDone
    /\ \E i \in Calls : fail[i] = "db_before" /\ client[i].status = 500

\* C8: if the db_after snapshot fails, no snapshot is saved for the call and
\* the client has already received the service's response, with the status
\* and the body the service sent.
C8_AfterFailureKeepsResponse ==
    \A i \in Calls :
        fail[i] = "db_after"
            => /\ saved[i] = <<>>
               /\ client[i] # NoResp
               /\ svc[i] # NoResp => client[i] = svc[i]

C8_Witness ==
    \E i \in Calls :
        /\ fail[i] = "db_after"
        /\ pc[i] = "done"
        /\ svc[i].status = 404
        /\ client[i] = svc[i]

\* C9: when the DB restore of a snapshot fails, its replay result has the
\* error set and passed = false, and nothing further happens for that
\* snapshot: no mock server and no service is started, no request is fired
\* and no DB snapshot is taken.
C9_RestoreFailureStops ==
    \A n \in Snaps :
        effects[n].restore = "failed"
            => /\ rpc[n] = "done"
               /\ result[n].error # ""
               /\ ~result[n].passed
               /\ effects[n].mock = "none"
               /\ effects[n].svc = "none"
               /\ ~effects[n].fired
               /\ ~effects[n].snapped

C9_Witness ==
    /\ returned
    /\ \E n \in Snaps :
         /\ effects[n].restore = "failed"
         /\ rcfg.hasOut[n]
         /\ rcfg.command
         /\ result[n].error # ""

\* C10: every replay result is exactly one of passed (no diffs, no error),
\* failed with diffs (at least one diff, no error) or errored (error set, no
\* diffs), and passed is true if and only if the diffs and the error are
\* both empty.
C10_ThreeOutcomes ==
    \A n \in Snaps :
        rpc[n] = "done" =>
            LET r == result[n] IN
            /\ \/ r.passed /\ r.diffs = <<>> /\ r.error = ""
               \/ ~r.passed /\ r.diffs # <<>> /\ r.error = ""
               \/ ~r.passed /\ r.diffs = <<>> /\ r.error # ""
            /\ r.passed <=> (r.diffs = <<>> /\ r.error = "")

C10_Witness ==
    /\ returned
    /\ \E n \in Snaps : result[n].passed
    /\ \E n \in Snaps : ~result[n].passed /\ result[n].diffs # <<>>

\* position of step x in the steps replay n has performed (0 if not performed)
StepAt(n, x) ==
    IF x \in Range(effects[n].order)
    THEN CHOOSE k \in 1..Len(effects[n].order) : effects[n].order[k] = x
    ELSE 0

\* C11: in a replay whose restore succeeded a mock server is started if and
\* only if the snapshot has outgoing requests; the service is started only
\* if in addition a service command is configured, only after the mock
\* server is listening, and with <mock_env_var> = http://<mock_addr> in its
\* environment; the request is fired only after both have started.
C11_MockThenServiceThenFire ==
    \A n \in Snaps :
        LET e == effects[n] IN
        /\ e.mock # "none" => (rcfg.hasOut[n] /\ e.restore = "ok")
        /\ (rcfg.hasOut[n] /\ e.restore = "ok" /\ rpc[n] # "mock")
               => e.mock # "none"
        /\ e.svc # "none"
               => /\ rcfg.hasOut[n] /\ rcfg.command
                  /\ e.mock \in {"up", "stopped"}
                  /\ 0 < StepAt(n, "mock") /\ StepAt(n, "mock") < StepAt(n, "svc")
                  /\ e.env = ServiceEnv(MockURL(n))
        /\ e.svc = "none" => e.env = NoEffects.env
        /\ e.fired
               => /\ rcfg.hasOut[n]
                       => /\ e.mock \in {"up", "stopped"}
                          /\ 0 < StepAt(n, "mock")
                          /\ StepAt(n, "mock") < StepAt(n, "fire")
                  /\ (rcfg.hasOut[n] /\ rcfg.command)
                       => /\ e.svc \in {"up", "stopped"}
                          /\ 0 < StepAt(n, "svc")
                          /\ StepAt(n, "svc") < StepAt(n, "fire")
                  /\ ~rcfg.hasOut[n] => (e.mock = "none" /\ e.svc = "none")

C11_Witness ==
    /\ returned
    /\ \E n \in Snaps :
         /\ rcfg.hasOut[n] /\ rcfg.command
         /\ effects[n].order = <<"restore", "mock", "svc", "fire", "snap">>
         /\ effects[n].env = ServiceEnv(MockURL(n))
    /\ \E n \in Snaps :
         /\ ~rcfg.hasOut[n]
         /\ effects[n].order = <<"restore", "fire", "snap">>

\* C12: with parallel replay on or off, ReplayAll returns only after every
\* replay has finished, the results have the length of the input, and
\* result[i] is the result of snapshots[i], whatever order the replays
\* complete in.
C12_ResultsInInputOrder ==
    returned =>
        /\ \A n \in Snaps : rpc[n] = "done"
        /\ DOMAIN result = Snaps
        /\ \A n \in Snaps : result[n].id = n

C12_Witness ==
    /\ returned
    /\ rcfg.parallel
    /\ \E n \in Snaps, m \in Snaps :
         /\ n < m
         /\ m \in effects[n].doneAfter
         /\ result[n].id = n
         /\ result[m].id = m

\* C13: with parallel replay and one shared test database nothing serializes
\* the replays' database access: another replay's RestoreAll can run between
\* a replay's own RestoreAll and its SnapshotAll, so that the replay is
\* asserted against a state it did not restore (the witness); without
\* parallel replay this never happens (the invariant).
C13_ForeignStateOnlyWhenParallel ==
    \A n \in Snaps :
        /\ (effects[n].snapped /\ effects[n].sawBase # 0
             /\ effects[n].sawBase # n) => rcfg.parallel
        /\ (~rcfg.parallel /\ rpc[n] \in {"mock", "svc", "fire", "snap"})
               => testdb.base = n

C13_Witness ==
    /\ returned
    /\ rcfg.parallel
    /\ \E n \in Snaps :
         /\ effects[n].restore = "ok"
         /\ effects[n].sawBase \in Snaps \ {n}
         /\ effects[effects[n].sawBase].restore = "ok"
         /\ ~result[n].passed
         /\ "db" \in Range(result[n].diffs)

\* position of stage x in the stages request q has passed (0 if not passed)
StageAt(q, x) ==
    IF x \in Range(mreq[q].path)
    THEN CHOOSE k \in 1..Len(mreq[q].path) : mreq[q].path[k] = x
    ELSE 0

Before(q, x, y) ==
    (StageAt(q, x) > 0 /\ StageAt(q, y) > 0) => StageAt(q, x) < StageAt(q, y)

\* C14: a request is authenticated before it is rate limited and rate
\* limited before it reaches the capture-and-forward handler; a request that
\* fails authentication takes no rate-limit token and no concurrency slot
\* and never reaches the handler (no DB snapshot, drain or forward).
C14_AuthThenRateThenHandler ==
    \A q \in Reqs :
        LET r == mreq[q] IN
        /\ Before(q, "auth", "limiter") /\ Before(q, "auth", "sem")
        /\ Before(q, "auth", "handler") /\ Before(q, "limiter", "sem")
        /\ Before(q, "limiter", "handler") /\ Before(q, "sem", "handler")
        /\ r.handled
              => /\ mcfg.token # "" => StageAt(q, "auth") > 0
                 /\ mcfg.rps > 0 => (StageAt(q, "limiter") > 0 /\ r.tokenTaken)
                 /\ mcfg.maxc > 0 => (StageAt(q, "sem") > 0 /\ r.slotTaken)
        /\ r.status \in {401, 403}
              => /\ ~r.tokenTaken /\ ~r.slotTaken /\ ~r.handled
                 /\ r.path = <<"auth">>

C14_Witness ==
    /\ mcfg.token # "" /\ mcfg.rps > 0 /\ mcfg.maxc > 0
    /\ \E q \in Reqs, p \in Reqs :
         /\ mreq[q].status = 403 /\ mreq[q].path = <<"auth">>
         /\ mreq[p].status = 200
         /\ mreq[p].path = <<"auth", "limiter", "sem", "handler">>
         /\ tokens = Burst(mcfg.rps) - 1
         /\ ticks = 0

\* an Authorization header of the form "Bearer <something>" (the scheme in
\* any letter case)
IsBearerForm(h) == h.len >= 7 /\ h.head \in {"Bearer ", "bearer "}

\* C15: with an auth token configured, a request without Authorization
\* header gets 401 and WWW-Authenticate: Bearer realm="snapshot-tester"; one
\* whose header is not of the form Bearer <token> gets 401; one with a
\* Bearer token other than the configured one gets 403; in all three cases
\* the wrapped handler is not called.
C15_AuthRejections ==
    mcfg.token # "" =>
        \A q \in Reqs :
            LET r == mreq[q] IN
            StageAt(q, "auth") > 0 =>
                /\ r.orig.len = 0
                      => /\ r.status = 401
                         /\ r.www = "Bearer realm=\"snapshot-tester\""
                /\ (r.orig.len > 0 /\ ~IsBearerForm(r.orig)) => r.status = 401
                /\ (IsBearerForm(r.orig) /\ r.orig.tail # mcfg.token)
                      => r.status = 403
                /\ (r.orig.len = 0 \/ ~IsBearerForm(r.orig)
                    \/ r.orig.tail # mcfg.token)
                      => (r.pc = "done" /\ r.path = <<"auth">> /\ ~r.handled)

C15_Witness ==
    /\ mcfg.token # ""
    /\ \E q \in Reqs, p \in Reqs :
         /\ mreq[q].orig.len = 0 /\ mreq[q].status = 401
         /\ mreq[q].www # ""
         /\ IsBearerForm(mreq[p].orig) /\ mreq[p].status = 403

\* C16: with an auth token configured, no request that reaches the handler
\* (and through it the service) carries an Authorization header with the
\* harness token: after successful authentication the header is removed.
C16_TokenNeverForwarded ==
    mcfg.token # "" =>
        \A q \in Reqs :
            mreq[q].handled
                => /\ mreq[q].downstream.tail # mcfg.token
                   /\ mreq[q].downstream = NoHeader

C16_Witness ==
    /\ mcfg.token # ""
    /\ \E q \in Reqs :
         /\ mreq[q].handled
         /\ mreq[q].orig.tail = mcfg.token
         /\ mreq[q].downstream = NoHeader
         /\ mreq[q].status = 200

\* C17: with max_concurrent = N > 0 at most N requests are inside the
\* wrapped handler at any moment, and a request is rejected by the
\* concurrency limiter (503 at once, the handler not called) exactly when N
\* requests are inside the handler at the moment it tries to enter.
C17_AtMostNInside ==
    mcfg.maxc > 0 =>
        /\ Cardinality(Inside) =< mcfg.maxc
        /\ sem = Cardinality(Inside)
        /\ \A q \in Reqs :
             StageAt(q, "sem") > 0
                => /\ (mreq[q].status = 503) <=> (mreq[q].seenInside = mcfg.maxc)
                   /\ mreq[q].status = 503
                         => (~mreq[q].handled /\ ~mreq[q].slotTaken
                             /\ mreq[q].pc = "done")
                   /\ mreq[q].status # 503 => mreq[q].slotTaken

C17_Witness ==
    /\ mcfg.maxc = 1
    /\ \E q \in Reqs, p \in Reqs :
         /\ mreq[q].status = 503 /\ mreq[q].seenInside = 1 /\ ~mreq[q].handled
         /\ mreq[p].pc = "inside"

\* C18 as stated: with requests_per_second above 0, also below 1, the token
\* bucket never rejects a request (it only delays it).
C18_LimiterNeverRejects ==
    \A q \in Reqs : mreq[q].status # 429

\* C19: when an inbound call matches no expectation, or matches one without
\* recorded response, the mock answers 502 with a JSON error, never a 2xx
\* status, and the call is still added to the observed calls.
C19_MissIs502AndRecorded ==
    \A k \in 1..Len(manswers) :
        LET a == manswers[k]
            missed == \/ a.chosen = 0
                      \/ mock.out[a.chosen].response = NoResp IN
        /\ missed => ~(a.status \in 200..299)
        /\ (a.lookup /\ missed)
              => /\ a.status = 502
                 /\ a.body = "{\"error\": \"no mock expectation matched\"}"
                 /\ a.recorded \in 1..Len(mcalls)
                 /\ mcalls[a.recorded].method = a.call.method
                 /\ mcalls[a.recorded].url = URLString(a.call)
                 /\ mcalls[a.recorded].response = NoResp
                 /\ \A j \in 1..(k - 1) : manswers[j].recorded < a.recorded

C19_Witness ==
    \E k \in 1..Len(manswers) :
        /\ Len(mock.out) = MaxExp
        /\ manswers[k].lookup /\ manswers[k].chosen = 0
        /\ manswers[k].status = 502 /\ manswers[k].recorded > 0
        /\ mcalls[manswers[k].recorded].url = URLString(manswers[k].call)

\* C20: the mock chooses the expectation by (1) method + full request URI,
\* (2) method + path, (3) an expectation whose key starts with "method:" and
\* ends with the path; the first strategy that finds one decides, a later
\* one is not used when an earlier one matches, and the response carries
\* the chosen expectation's recorded status.
C20_StrategiesInOrder ==
    \A k \in 1..Len(manswers) :
        LET a == manswers[k]
            s1 == ExactMatch(mock.out, a.call)
            s2 == PathMatch(mock.out, a.call)
            s3 == SuffixMatch(mock.out, a.call) IN
        a.lookup =>
            /\ s1 # {} => a.chosen \in s1
            /\ (s1 = {} /\ s2 # {}) => a.chosen \in s2
            /\ (s1 = {} /\ s2 = {} /\ s3 # {}) => a.chosen \in s3
            /\ (s1 = {} /\ s2 = {} /\ s3 = {}) => a.chosen = 0
            /\ (a.chosen # 0 /\ mock.out[a.chosen].response # NoResp)
                  => a.status = mock.out[a.chosen].response.status

C20_Witness ==
    \E k \in 1..Len(manswers) :
        LET a == manswers[k] IN
        /\ a.lookup /\ a.chosen # 0
        /\ ExactMatch(mock.out, a.call) = {}
        /\ a.chosen \in PathMatch(mock.out, a.call)
        /\ SuffixMatch(mock.out, a.call) \ PathMatch(mock.out, a.call) # {}
        /\ mock.out[a.chosen].response # NoResp
        /\ a.status = mock.out[a.chosen].response.status

\* ---------------------------------------------------------------- C21
\* the sequence number a file name carries: the whole number in front of
\* the first "_" (1000 for 1000_x.snapshot.json), 0 for any other name
SequenceNumberOf(name) ==
    LET ds == DigitRun(name, Len(name))
    IN  IF ds # <<>> /\ Len(name) > Len(ds) /\ name[Len(ds) + 1] = "_"
        THEN Value(ds) ELSE 0

RECURSIVE LargestPresent(_)
LargestPresent(names) ==
    IF names = {} THEN 0
    ELSE LET n == CHOOSE e \in names : TRUE
             rest == LargestPresent(names \ {n})
         IN  IF SequenceNumberOf(n) > rest THEN SequenceNumberOf(n) ELSE rest

\* C21: a saved snapshot gets the largest sequence number present in the
\* directory plus one (1 if none is present), so gaps are not reused, and
\* of two saves into the directory of which the first returned before the
\* second began, the second gets the larger sequence number
C21_NextSequenceNumber ==
    /\ \A k \in 1..Len(saveLog) :
          saveLog[k].seq = LargestPresent(saveLog[k].present) + 1
    /\ \A k, l \in 1..Len(saveLog) :
          k <= saveLog[l].began => saveLog[k].seq < saveLog[l].seq

\* two saves one after the other into a directory that held 001 and 003:
\* they got 004 and 005
C21_GapWitness ==
    /\ Len(saveLog) = 2
    /\ saveLog[2].began = 1
    /\ saveLog[1].present = {FileName(1, "p0"), FileName(3, "q0")}
    /\ saveLog[1].seq = 4
    /\ saveLog[2].seq = 5

\* ---------------------------------------------------------------- C22
\* C22: no step removes a file or changes the document of a file that
\* exists unless it is an update of that very file; an update creates no
\* file; a replay leaves the directory as it is
C22_AppendOnly ==
    [][/\ \A f \in DOMAIN disk :
             /\ f \in DOMAIN disk'
             /\ disk'[f] # disk[f] => op'.kind = "update" /\ op'.path = f
       /\ updates' # updates => DOMAIN disk' = DOMAIN disk
       /\ (op' # op /\ op'.kind = "replay") => disk' = disk]_vars

\* two saves that ran at the same time took the same sequence number, and
\* the directory holds one file for each of them
C22_Witness ==
    /\ Len(saveLog) = 2
    /\ saveLog[2].began = 0
    /\ saveLog[1].seq = saveLog[2].seq
    /\ saveLog[1].path # saveLog[2].path
    /\ {saveLog[1].path, saveLog[2].path} \subseteq DOMAIN disk

\* ---------------------------------------------------------------- C23
FrameFields(doc) ==
    <<doc.id, doc.timestamp, doc.service, doc.tags, doc.db_state_before,
      doc.request, doc.outgoing_requests>>

\* C23: an update of a stored snapshot writes id, timestamp, service, tags,
\* db_state_before, request and outgoing_requests back as they were and
\* puts the values it observed into response, db_state_after and db_diff;
\* no other operation changes a stored snapshot
C23_UpdateChangesThreeFields ==
    [][\A f \in DOMAIN disk :
          /\ f \in DOMAIN disk'
          /\ disk'[f] # disk[f] =>
                /\ op'.kind = "update" /\ op'.path = f
                /\ FrameFields(disk'[f]) = FrameFields(disk[f])
                /\ disk'[f].response = op'.status
                /\ disk'[f].db_state_after = op'.after
                /\ disk'[f].db_diff = DBDiff(disk[f].db_state_before, op'.after)]_vars

\* ---------------------------------------------------------------- C24
\* two byte strings are JSON-equivalent: both are JSON documents and decode
\* to the same value
JSONEquivalent(x, y) ==
    /\ Unmarshal(x).ok
    /\ Unmarshal(y).ok
    /\ Unmarshal(x).v = Unmarshal(y).v

\* C24: decoding what ParseBody made of a body B of content type C gives B
\* back, or a JSON document equivalent to B when ParseBody parsed B as JSON
C24_RoundTrip ==
    codec.stage = "decoded" =>
        /\ codec.decoded.ok
        /\ IF ParsedAsJSON(codec.raw, codec.ct)
           THEN JSONEquivalent(codec.decoded.bytes, codec.raw)
           ELSE codec.decoded.bytes = codec.raw

\* ---------------------------------------------------------------- C25
RowSet(rows) == {rows[i] : i \in 1..Len(rows)}

\* C25: the diff of a DB state with itself has no added, no removed and no
\* modified row in any table
C25_DiffOfEqualStatesEmpty ==
    (differ.stage = "diffed" /\ differ.before = differ.after) =>
        \A table \in DOMAIN differ.diff :
            /\ differ.diff[table].added = {}
            /\ differ.diff[table].removed = {}
            /\ differ.diff[table].modified = {}

\* a state with the same row twice, by id, was diffed with itself
C25_Witness ==
    /\ differ.stage = "diffed"
    /\ differ.before = differ.after
    /\ TableName \in DOMAIN differ.before
    /\ LET rows == differ.before[TableName]
       IN  Len(rows) = 2 /\ rows[1] = rows[2] /\ "id" \in DOMAIN rows[1]
    /\ TableName \in DOMAIN differ.diff

\* ---------------------------------------------------------------- C26
\* rows are matched by id when every row on both sides has one
MatchedByID(before, after) ==
    \A r \in RowSet(before) \cup RowSet(after) : "id" \in DOMAIN r

\* the same row: the same id when rows are matched by id, else the same
\* columns with the same values
SameRow(byID, r, x) ==
    IF byID THEN Sprintv(r["id"]) = Sprintv(x["id"]) ELSE r = x

\* C26: every added row is in the after state and is no row of the before
\* state, every removed row is in the before state and is no row of the
\* after state, and the two rows of a modified pair have the same id
C26_DiffRowsComeFromTheStates ==
    differ.stage = "diffed" =>
        \A table \in DOMAIN differ.diff :
            LET before == RowsOf(differ.before, table)
                after == RowsOf(differ.after, table)
                byID == MatchedByID(before, after)
                d == differ.diff[table]
            IN  /\ \A r \in d.added :
                      /\ r \in RowSet(after)
                      /\ \A x \in RowSet(before) : ~SameRow(byID, r, x)
                /\ \A r \in d.removed :
                      /\ r \in RowSet(before)
                      /\ \A x \in RowSet(after) : ~SameRow(byID, r, x)
                /\ \A p \in d.modified :
                      /\ "id" \in DOMAIN p.before /\ "id" \in DOMAIN p.after
                      /\ Sprintv(p.before["id"]) = Sprintv(p.after["id"])
                      /\ p.before \in RowSet(before)
                      /\ p.after \in RowSet(after)

\* a diff by id with an added and a modified row
C26_Witness ==
    /\ differ.stage = "diffed"
    /\ TableName \in DOMAIN differ.diff
    /\ MatchedByID(RowsOf(differ.before, TableName), RowsOf(differ.after, TableName))
    /\ differ.diff[TableName].added # {}
    /\ differ.diff[TableName].modified # {}

\* a diff by row hash with an added and a removed row
C26_HashWitness ==
    /\ differ.stage = "diffed"
    /\ TableName \in DOMAIN differ.diff
    /\ ~MatchedByID(RowsOf(differ.before, TableName), RowsOf(differ.after, TableName))
    /\ differ.diff[TableName].added # {}
    /\ differ.diff[TableName].removed # {}

\* ---------------------------------------------------------------- C27
IDs(rows) == {Sprintv(rows[i]["id"]) : i \in 1..Len(rows)}

\* no two rows of the table carry the same id
UniqueIDs(rows) ==
    \A i, j \in 1..Len(rows) : Sprintv(rows[i]["id"]) = Sprintv(rows[j]["id"]) => i = j

RowWithID(rows, k) == rows[CHOOSE i \in 1..Len(rows) : Sprintv(rows[i]["id"]) = k]

\* two rows differ: in their columns, or in what a column's value prints as
ValuesDiffer(r, x) ==
    \/ DOMAIN r # DOMAIN x
    \/ \E c \in DOMAIN r : Sprintv(r[c]) # Sprintv(x[c])

\* C27: for a table whose rows all have an id, unique on each side, there
\* are as many modified entries as ids that are on both sides with rows
\* that differ
C27_ModifiedCountsChangedIDs ==
    differ.stage = "diffed" =>
        \A table \in DOMAIN differ.diff :
            LET before == RowsOf(differ.before, table)
                after == RowsOf(differ.after, table)
            IN  (MatchedByID(before, after) /\ UniqueIDs(before) /\ UniqueIDs(after)) =>
                    Cardinality(differ.diff[table].modified) =
                        Cardinality({k \in IDs(before) \cap IDs(after) :
                                        ValuesDiffer(RowWithID(before, k), RowWithID(after, k))})

\* two ids on both sides, one with a changed row: one modified entry
C27_Witness ==
    /\ differ.stage = "diffed"
    /\ TableName \in DOMAIN differ.before /\ TableName \in DOMAIN differ.after
    /\ LET before == differ.before[TableName]
           after == differ.after[TableName]
       IN  /\ MatchedByID(before, after) /\ UniqueIDs(before) /\ UniqueIDs(after)
           /\ Cardinality(IDs(before) \cap IDs(after)) = 2
           /\ Cardinality(differ.diff[TableName].modified) = 1

\* ---------------------------------------------------------------- C28
\* C28: redacting a redacted snapshot with the same fields changes nothing
C28_RedactionIdempotent ==
    redaction.stage = "again" => redaction.second = redaction.first

\* two fields were applied twice to a snapshot that the first redaction
\* changed in a header and in a body
C28_Witness ==
    /\ redaction.stage = "again"
    /\ Len(redaction.fieldList) = 2
    /\ redaction.first.request.headers # redaction.built.request.headers
    /\ redaction.first.request.body # redaction.built.request.body

\* ---------------------------------------------------------------- C29
\* the values of the fields called name, at any depth of a body
RECURSIVE ValuesNamed(_, _)
ValuesNamed(payload, name) ==
    IF payload.t = "map" THEN
        {payload.m[x] : x \in DOMAIN payload.m \cap {name}}
            \cup UNION {ValuesNamed(payload.m[x], name) : x \in DOMAIN payload.m}
    ELSE IF payload.t = "list" THEN
        UNION {ValuesNamed(payload.a[i], name) : i \in DOMAIN payload.a}
    ELSE {}

\* the request body, the response body, and the body and response body of
\* every outgoing request
BodiesOf(s) ==
    {s.request.body, s.response.body}
        \cup {s.outgoing[i].body : i \in DOMAIN s.outgoing}
        \cup UNION {{s.outgoing[i].response[j].body : j \in DOMAIN s.outgoing[i].response} :
                        i \in DOMAIN s.outgoing}

\* C29: after redaction with a field *.X every field named X, at any depth
\* of any body of the snapshot, holds the redaction marker
C29_WildcardRedactsEveryDepth ==
    redaction.stage \in {"redacted", "again"} =>
        \A k \in DOMAIN redaction.fieldList :
            LET parts == redaction.fieldList[k]
            IN  (Len(parts) = 2 /\ parts[1] = "*") =>
                    \A payload \in BodiesOf(redaction.first) :
                        \A v \in ValuesNamed(payload, parts[2]) : v = BStr(redactedValue)

\* ---------------------------------------------------------------- C30
DisabledAt(log, i) == log[i].e = "disable" /\ log[i].ok

\* C30: in RestoreAll the foreign key checks are switched off before the
\* first RestoreTable; a table is modified only with the checks off; once
\* they are off, every return comes after an attempt to switch them on,
\* also when a RestoreTable failed; and when switching off fails no table
\* is restored and none is modified
C30_RestoreAllWrapsInFKDisable ==
    LET log == restore.log
    IN  /\ \A i \in DOMAIN log :
              log[i].e = "table" =>
                  /\ \E j \in 1..(i - 1) : DisabledAt(log, j)
                  /\ log[i].modified => ~log[i].fk
        /\ (restore.pc = "returned" /\ \E j \in DOMAIN log : DisabledAt(log, j)) =>
              /\ log[Len(log)].e = "enable"
              /\ \A i \in DOMAIN log : log[i].e = "table" => i < Len(log)
        /\ (\E j \in DOMAIN log : log[j].e = "disable" /\ ~log[j].ok) =>
              /\ \A i \in DOMAIN log : log[i].e # "table"
              /\ restore.db = restore.dbAtCall

\* a RestoreAll that returned after one table was restored and the next
\* failed in an INSERT, with the checks switched on again
C30_Witness ==
    /\ restore.pc = "returned"
    /\ Len(restore.log) = 4
    /\ DisabledAt(restore.log, 1)
    /\ restore.log[2].e = "table" /\ restore.log[2].modified
    /\ restore.log[3].e = "table" /\ restore.log[3].modified
    /\ restore.todo = {}
    /\ restore.db # restore.state
    /\ restore.log[4].e = "enable" /\ restore.log[4].ok /\ restore.fk

\* a RestoreAll that returned because the checks could not be switched off,
\* with rows in the tables from the call before
C30_DisableFailedWitness ==
    /\ restore.pc = "returned"
    /\ restore.log = <<[e |-> "disable", ok |-> FALSE]>>
    /\ restore.db # EmptyDB
    /\ restore.state # restore.db

\* ---------------------------------------------------------------- C31
\* the RestoreAll of the log returned nil: the checks were switched off and
\* every table of the state was restored without an error
RestoredAll(log, state) ==
    /\ \E j \in DOMAIN log : DisabledAt(log, j)
    /\ {log[i].table : i \in {j \in DOMAIN log : log[j].e = "table" /\ log[j].ok}} = DOMAIN state

\* C31 as claimed: after a RestoreAll(S) that returned nil every table of S
\* holds exactly the rows of S, a following SnapshotAll returns them, and
\* every other table is as it was
C31_RestoreAllRestoresExactly ==
    (restore.scanned /\ RestoredAll(restore.log, restore.state)) =>
        /\ \A table \in DOMAIN restore.state :
              /\ restore.db[table] = restore.state[table]
              /\ restore.scan.ok /\ restore.scan.state[table] = restore.state[table]
        /\ \A table \in RestoreTables \ DOMAIN restore.state :
              restore.db[table] = restore.dbAtCall[table]

\* C31, amended: the same for the rows of S that have a column; a row
\* without columns is not inserted
C31_RestoreAllRestoresRowsWithColumns ==
    (restore.scanned /\ RestoredAll(restore.log, restore.state)) =>
        /\ \A table \in DOMAIN restore.state :
              LET given == restore.state[table]
                  kept == {i \in DOMAIN given : DOMAIN given[i] # {}}
              IN  /\ Len(restore.db[table]) = Cardinality(kept)
                  /\ \A i \in kept : \E k \in DOMAIN restore.db[table] : restore.db[table][k] = given[i]
                  /\ restore.scan.ok /\ restore.scan.state[table] = restore.db[table]
        /\ \A table \in RestoreTables \ DOMAIN restore.state :
              restore.db[table] = restore.dbAtCall[table]

\* a second RestoreAll returned nil for a state that names one table, with
\* text in its row, while both tables held rows, and was followed by a scan
C31_Witness ==
    /\ restore.scanned /\ RestoredAll(restore.log, restore.state)
    /\ restore.calls = 2
    /\ DOMAIN restore.state = {"users"}
    /\ restore.state["users"] = <<RowIA(IntV(1), StrV(<<"x">>))>>
    /\ restore.dbAtCall["orders"] # <<>>
    /\ restore.dbAtCall["users"] # <<>>

\* ---------------------------------------------------------------- C32
\* C32: a configured table that is not in the database when it is scanned
\* is in the DB snapshot with no rows, and the snapshot does not fail
C32_MissingTableScansEmpty ==
    (dbscan.pc \in {"proxy", "after", "done"} /\ dbscan.missing # {}) =>
        /\ dbscan.dbBefore.ok
        /\ \A table \in dbscan.missing :
              table \in DOMAIN dbscan.dbBefore.state /\ dbscan.dbBefore.state[table] = <<>>

\* ---------------------------------------------------------------- C33
\* C33: in every snapshot saved, db_state_before and db_state_after name
\* the same tables
C33_SameTablesBeforeAndAfter ==
    \A i \in DOMAIN dbscan.stored :
        DOMAIN dbscan.stored[i].db_state_before = DOMAIN dbscan.stored[i].db_state_after

\* ---------------------------------------------------------------- C34
\* the outgoing calls that are in the buffer or were returned by a drain
CapturedCalls == Range(oproxy.calls) \cup oproxy.drained

\* C34: an outgoing call whose forwarding failed is answered 502 and is
\* recorded: once the handler has returned it is in the buffer or was drained
C34_FailedForwardIsRecorded ==
    \A k \in DOMAIN oproxy.handled :
        LET call == oproxy.handled[k]
        IN  (call.at = "returned" /\ call.upstreamFailed) =>
                call.code = 502 /\ k \in CapturedCalls

\* ---------------------------------------------------------------- C35
\* C35: a CONNECT request is never sent upstream and never captured, and
\* it is answered 405
C35_ConnectRejected ==
    \A k \in DOMAIN oproxy.handled :
        LET call == oproxy.handled[k]
        IN  call.method = MethodConnect =>
                /\ ~call.sentUpstream
                /\ k \notin CapturedCalls
                /\ call.at \in {"method", "returned"}
                /\ call.at = "returned" => call.code = 405 /\ ~call.written

\* a CONNECT request was answered after another call was captured
C35_Witness ==
    /\ Len(oproxy.handled) = 2
    /\ oproxy.handled[1].written /\ 1 \in CapturedCalls
    /\ oproxy.handled[2].method = MethodConnect
    /\ oproxy.handled[2].at = "returned"

\* ---------------------------------------------------------------- C37
\* C37: an outgoing call of which any part of the response has been written
\* to the service is in the buffer or was drained from it
C37_CapturedBeforeWrittenBack ==
    \A k \in DOMAIN oproxy.handled :
        (oproxy.handled[k].written \/ oproxy.handled[k].at = "write") => k \in CapturedCalls

\* a call is about to be written back and was drained already; another
\* was written back before
C37_Witness ==
    /\ Len(oproxy.handled) = 2
    /\ oproxy.handled[1].written
    /\ oproxy.handled[2].at = "write"
    /\ oproxy.calls = <<>>
    /\ oproxy.drained = {1, 2}

\* ---------------------------------------------------------------- C38
\* C38: when a replay whose mock server started has returned, the mock
\* server has been stopped, and a service the driver started has been
\* stopped before it
C38_StopsOnEveryReturn ==
    \A n \in Snaps :
        (rpc[n] = "done" /\ effects[n].mock \in {"up", "stopped"}) =>
            /\ effects[n].mock = "stopped"
            /\ effects[n].svc \in {"none", "failed", "stopped"}
            /\ effects[n].stops =
                  IF effects[n].svc = "stopped" THEN <<"svc", "mock">> ELSE <<"mock">>

\* a replay returned with a request error after it had started the mock
\* server and the service, and another because the service did not start
C38_Witness ==
    /\ \E n \in Snaps :
          /\ rpc[n] = "done" /\ effects[n].fired /\ ~effects[n].snapped
          /\ effects[n].stops = <<"svc", "mock">>
    /\ \E n \in Snaps :
          /\ rpc[n] = "done" /\ effects[n].svc = "failed"
          /\ effects[n].stops = <<"mock">>

\* ---------------------------------------------------------------- C36
\* Stop on a handle cancels; it kills only after the full wait; it has
\* waited no second when the process had ended before; on a nil handle it
\* does nothing
StopIsBounded ==
    /\ msvc.elapsed <= StopTimeoutSeconds
    /\ msvc.killed => msvc.elapsed = StopTimeoutSeconds /\ msvc.cancelled
    /\ (msvc.stop = "returned" /\ msvc.handle) =>
          /\ msvc.cancelled
          /\ msvc.killed \/ msvc.doneClosed
          /\ msvc.exitedAtCall => msvc.elapsed = 0 /\ ~msvc.killed
    /\ (msvc.stop = "returned" /\ ~msvc.handle) =>
          ~msvc.cancelled /\ ~msvc.killed /\ msvc.elapsed = 0

\* C36: Stop always returns, after at most 5 seconds of waiting, with the
\* process cancelled and, on timeout, killed
C36_StopAlwaysReturns ==
    /\ []StopIsBounded
    /\ (msvc.stop \in {"called", "select"}) ~> (msvc.stop = "returned")

\* Stop returned after the timeout with the process still running and killed
C36_Witness ==
    /\ msvc.stop = "returned"
    /\ msvc.killed
    /\ msvc.proc = "running"
    /\ msvc.services = 2

\* ---------------------------------------------------------------- C40
\* the recorded response an answer was taken from
AnsweredFrom(a) == IF a.chosen = 0 THEN NoResp ELSE mock.out[a.chosen].response

\* C40: the answer to an inbound call is fixed by the recorded list and the
\* call's method and URL: every expectation the lookup can end with for
\* this call carries the response the call was answered from
C40_AnswerFixedByListAndCall ==
    \A k \in 1..Len(manswers) :
        manswers[k].lookup =>
            \A c \in Candidates(mock.out, manswers[k].call) :
                /\ mock.out[c].response = AnsweredFrom(manswers[k])
                /\ manswers[k].status
                     = (IF mock.out[c].response # NoResp
                        THEN mock.out[c].response.status ELSE 502)

\* ---------------------------------------------------------------- C39
\* C39: with an auth token configured, the request headers of a saved
\* snapshot hold no Authorization header and so not the harness token:
\* they are those of the request after withAuth removed the header
C39_TokenNeverSaved ==
    mcfg.token # "" =>
        \A q \in Reqs :
            mreq[q].saved
                => /\ mreq[q].savedAuth.tail # mcfg.token
                   /\ mreq[q].savedAuth = NoHeader
                   /\ mreq[q].savedAuth = mreq[q].downstream

\* a request that carried the harness token was authenticated and its
\* snapshot saved
C39_Witness ==
    /\ mcfg.token # ""
    /\ \E q \in Reqs :
         /\ mreq[q].saved
         /\ mreq[q].orig.tail = mcfg.token
         /\ mreq[q].orig.len > 0
         /\ mreq[q].status = 200

====
